---- MODULE Spec2Model ----
(***************************************************************************)
(* Booking repository of the parking marketplace: the document store       *)
(* (collections listings, bookings, notifications), createBooking,         *)
(* getOverlappingBookings, updateBookingStatus, filterOldCancelledBookings,*)
(* the booking flow handleBooking of the listing detail screen, the        *)
(* accept / decline / cancel controllers of the booking detail and pending *)
(* bookings screens, and the scheduled purge of old cancelled bookings.    *)
(* Every await of the source is a step boundary: between two steps of one  *)
(* flow any other flow may run.                                            *)
(***************************************************************************)
EXTENDS Integers, Sequences, FiniteSets, TLC

\* ------------------------------------------------------------------ bounds
\* Times are ticks 0..MaxTime; the store holds at most MaxBookings bookings.
MaxTime == 2
MaxBookings == 2
\* Size of the stores the query specification starts from.
MaxQueryDocs == 1
\* The notifications collection holds at most MaxNotifications documents.
MaxNotifications == 6
\* Bare createNotification calls store at most MaxCreated notifications.
MaxCreated == 4
\* The server's clock runs up to day MaxClock.
MaxClock == 16
\* Length of the lists filterOldCancelledBookings is applied to.
MaxListLen == 2
\* Bare updateBookingStatus calls in one run.
MaxCalls == 2
\* The Calendar shows the dates 0..MaxDay; availability windows and bookings
\* lie within MaxSlots hours from 09:00.
MaxDay == 1
MaxSlots == 2

\* fifteenDaysAgo: the retention window of cancelled bookings, in days.
RetentionDays == 15

\* ------------------------------------------------------------ value spaces
\* auth.currentUser === null / useAuth().user === null
NoUser == "null"
\* The JavaScript value undefined (an absent field or argument).
Undefined == "undefined"
\* The literal the source substitutes for a missing host.
Unknown == "unknown"

\* Booking['status']
BookingStatus == {"pending", "confirmed", "cancelled", "completed"}

Times == 0..MaxTime

\* A time string: an ISO string of tick t, or a string Date cannot parse.
IsoString(t) == [iso |-> TRUE, t |-> t]
BadTimeString == [iso |-> FALSE, t |-> 0]
TimeStrings == {IsoString(t) : t \in Times} \cup {BadTimeString}

\* new Date(s): a Date whose getTime() is the tick, or NaN.
NewDate(s) == [nan |-> ~s.iso, ms |-> IF s.iso THEN s.t ELSE 0]
\* isNaN(d.getTime())
IsNaNDate(d) == d.nan
\* Relational operators on Dates compare valueOf(); any comparison with NaN
\* is false.
DateGt(a, b) == ~a.nan /\ ~b.nan /\ a.ms > b.ms
DateLt(a, b) == ~a.nan /\ ~b.nan /\ a.ms < b.ms
DateGe(a, b) == ~a.nan /\ ~b.nan /\ a.ms >= b.ms

\* A total_price argument: a number, NaN, or a value that is not a number.
Number(v) == [kind |-> "number", v |-> v]
NaNPrice == [kind |-> "NaN", v |-> 0]
NotANumber == [kind |-> "string", v |-> 0]
Prices == {Number(v) : v \in -1..2} \cup {NaNPrice, NotANumber}

\* Outcomes of one call to the document store: of a query (getDocs), and of
\* a read or write of one document (getDoc, addDoc).
QueryOutcomes == {"ok", "failed-precondition", "unavailable", "permission-denied"}
DocOutcomes == {"ok", "unavailable"}

\* -------------------------------------------------------------- the store
ListingIds == {"L1", "L2", "L3"}

\* L1 was stored by the create-listing screen (owner in host_id), L2 by
\* createListing of lib/listings.ts (owner in user_id only); L3 is no
\* document of the collection.
InitListings ==
    [l \in {"L1", "L2"} |->
        IF l = "L1"
        THEN [host_id |-> "alice", user_id |-> Undefined, price_per_hour |-> 1]
        ELSE [host_id |-> Undefined, user_id |-> "alice", price_per_hour |-> 1]]

VARIABLES
    listings,       \* collection listings: id -> document
    bookings,       \* collection bookings: id -> document
    notifications,  \* collection notifications: id -> document
    flow,           \* per process: position and locals of its running call
    lastQuery,      \* last bare getOverlappingBookings call: arguments and return
    faults,         \* whether calls to the store may fail in this run
    clock,          \* the server's clock, in days
    skew,           \* how far the devices' clocks are ahead of the server's
    purge,          \* the purge job: its query result and what it has deleted
    ubs,            \* the running updateBookingStatus call and its caller
    screen,         \* the booking detail screens: loaded copy and position
    pendingList,    \* the pending bookings screen: the list it loaded
    lastFilter,     \* filterOldCancelledBookings calls: argument and returns
    lastNote,       \* last bare call of the notifications library
    lastListing,    \* last updateListing / deleteListing call
    calendar        \* the Calendar: its window, booked slots and time slots

\* The variables the booking flow and the overlap query leave alone.
\* The records of the calls the booking screens do not make.
logs == <<lastNote, lastListing, calendar>>

rest == <<clock, skew, purge, ubs, screen, pendingList, lastFilter, logs>>

vars == <<listings, bookings, notifications, flow, lastQuery, faults, rest>>

\* How the store may answer a query / a read or write of one document.
QueryAnswers == IF faults THEN QueryOutcomes ELSE {"ok"}
DocAnswers == IF faults THEN DocOutcomes ELSE {"ok"}

Procs == {"p1", "p2"}

\* addDoc assigns a fresh identifier (of a collection nothing is deleted
\* from).
NewId(coll) == Cardinality(DOMAIN coll) + 1

\* The collection with the document data under the identifier id.
AddDocAt(coll, id, data) ==
    [i \in DOMAIN coll \cup {id} |-> IF i \in DOMAIN coll THEN coll[i] ELSE data]

\* The collection after addDoc(coll, data).
AddDoc(coll, data) == AddDocAt(coll, NewId(coll), data)

\* The identifier addDoc assigns in the bookings collection: one that no
\* booking has or had, the purged ones included.
NewBookingId(store) == Cardinality(DOMAIN store \cup purge.deleted) + 1

\* new Date() on a device.
DeviceNow == clock + skew

\* ------------------------------------------------- getOverlappingBookings
\* Variant of the filter that takes the intervals as closed.
OverlapsClosed(booking, startTime, endTime) ==
    LET bookingStart == NewDate(booking.start_time)
        bookingEnd == NewDate(booking.end_time)
        requestStart == NewDate(startTime)
        requestEnd == NewDate(endTime)
    IN  DateGe(bookingEnd, requestStart) /\ DateGe(requestEnd, bookingStart)

\* The in-memory filter: the stored interval [start_time, end_time) against
\* the requested [startTime, endTime).
Overlaps(booking, startTime, endTime) ==
    LET bookingStart == NewDate(booking.start_time)
        bookingEnd == NewDate(booking.end_time)
        requestStart == NewDate(startTime)
        requestEnd == NewDate(endTime)
    IN  DateGt(bookingEnd, requestStart) /\ DateLt(bookingStart, requestEnd)

\* where('listing_id', '==', listingId), where('status', 'in', [...])
QueryMatches(booking, listingId) ==
    /\ booking.listing_id = listingId
    /\ booking.status \in {"pending", "confirmed"}

\* orderBy('start_time', 'asc'): ISO strings order as their ticks; documents
\* with equal start_time come in identifier order.
RECURSIVE OrderByStartTime(_, _)
OrderByStartTime(store, ids) ==
    IF ids = {} THEN <<>>
    ELSE LET first == CHOOSE i \in ids : \A j \in ids :
                          \/ store[i].start_time.t < store[j].start_time.t
                          \/ /\ store[i].start_time.t = store[j].start_time.t
                             /\ i <= j
         IN  <<first>> \o OrderByStartTime(store, ids \ {first})

\* querySnapshot.docs.map(doc => ({id: doc.id, ...doc.data()}))
Snapshot(store, listingId) ==
    LET ids == {i \in DOMAIN store : QueryMatches(store[i], listingId)}
        ordered == OrderByStartTime(store, ids)
    IN  [k \in 1..Len(ordered) |-> [id |-> ordered[k], data |-> store[ordered[k]]]]

\* Variant that degrades to an empty result on every error of the store.
GetOverlappingBookingsSwallowAll(store, listingId, startTime, endTime, outcome) ==
    IF outcome = "ok"
    THEN [threw |-> FALSE, error |-> "none",
          docs |-> SelectSeq(Snapshot(store, listingId),
                             LAMBDA b : Overlaps(b.data, startTime, endTime))]
    ELSE [threw |-> FALSE, error |-> "none", docs |-> <<>>]

\* What the call returns (threw = FALSE, docs) or throws (threw = TRUE,
\* error), given how the store answered the query.
GetOverlappingBookings(store, listingId, startTime, endTime, outcome) ==
    IF outcome = "ok"
    THEN [threw |-> FALSE, error |-> "none",
          docs |-> SelectSeq(Snapshot(store, listingId),
                             LAMBDA b : Overlaps(b.data, startTime, endTime))]
    ELSE IF outcome = "failed-precondition"
    THEN [threw |-> FALSE, error |-> "none", docs |-> <<>>]
    ELSE [threw |-> TRUE, error |-> outcome, docs |-> <<>>]

\* ----------------------------------------------------------- createBooking
\* x || fallback treats undefined and the empty string as absent.
Falsy(x) == x \in {Undefined, ""}

\* The value of a timestamp field of a document: absent, a Timestamp object
\* of the store (serverTimestamp() filled in), or a string.  iso and t are
\* what new Date(value) makes of it: a Timestamp object is no date string.
NoTimestamp == [kind |-> "absent", iso |-> FALSE, t |-> 0]
ServerTimestamp(t) == [kind |-> "timestamp", iso |-> FALSE, t |-> t]
StringField(str) == [kind |-> "string", iso |-> str.iso, t |-> str.t]

\* Variant of the object that takes user_id and status from the argument
\* when it has them.
ValidatedBookingDataTrusting(bookingData, currentUser, now) ==
    [listing_id |-> bookingData.listing_id,
     user_id |-> IF Falsy(bookingData.user_id) THEN currentUser
                 ELSE bookingData.user_id,
     host_id |-> IF Falsy(bookingData.host_id) THEN Unknown
                 ELSE bookingData.host_id,
     start_time |-> bookingData.start_time,
     end_time |-> bookingData.end_time,
     total_price |-> IF bookingData.total_price.kind = "number"
                     THEN bookingData.total_price.v ELSE 0,
     status |-> IF Falsy(bookingData.status) THEN "pending"
                ELSE bookingData.status,
     created_at |-> IsoString(now),
     updated_at |-> NoTimestamp,
     cancelled_at |-> NoTimestamp]

\* The object built before any check (validatedBookingData); now is the
\* device's clock.  updated_at and cancelled_at are no fields of it yet.
\* user_id and status of the argument are not read.
ValidatedBookingData(bookingData, currentUser, now) ==
    [listing_id |-> bookingData.listing_id,
     user_id |-> currentUser,
     host_id |-> IF Falsy(bookingData.host_id) THEN Unknown
                 ELSE bookingData.host_id,
     start_time |-> bookingData.start_time,
     end_time |-> bookingData.end_time,
     total_price |-> IF bookingData.total_price.kind = "number"
                     THEN bookingData.total_price.v ELSE 0,
     status |-> "pending",
     created_at |-> IsoString(now),
     updated_at |-> NoTimestamp,
     cancelled_at |-> NoTimestamp]

\* Variant of the date validation that lets start = end pass.
DateErrorStrict(validated) ==
    LET startDate == NewDate(validated.start_time)
        endDate == NewDate(validated.end_time)
    IN  IF IsNaNDate(startDate) \/ IsNaNDate(endDate) THEN "invalid-date"
        ELSE IF DateGt(startDate, endDate) THEN "start-not-before-end"
        ELSE "none"

\* The error the date validation throws, "none" when the dates pass.
DateError(validated) ==
    LET startDate == NewDate(validated.start_time)
        endDate == NewDate(validated.end_time)
    IN  IF IsNaNDate(startDate) \/ IsNaNDate(endDate) THEN "invalid-date"
        ELSE IF DateGe(startDate, endDate) THEN "start-not-before-end"
        ELSE "none"

\* Variant of the lookup without the exists() test: data() of a missing
\* document is undefined and reading its host_id throws a TypeError.
LookupErrorUnchecked(store, id) ==
    IF id \notin DOMAIN store THEN "type-error" ELSE "none"

\* The error the listing lookup throws for the document it got, "none" when
\* the listing exists.
LookupError(store, id) ==
    IF id \notin DOMAIN store THEN "listing-not-found" ELSE "none"

\* The host taken from the listing document.
ListingHostId(listingData) == listingData.host_id

\* validatedBookingData after the host_id update.
WithResolvedHost(validated, hostId) ==
    IF Falsy(validated.host_id) \/ validated.host_id = Unknown
    THEN [validated EXCEPT !.host_id = hostId]
    ELSE validated

\* addDoc rejects a document holding an undefined field value (the store is
\* opened with getFirestore's defaults).
HasUndefinedField(data) ==
    \/ data.listing_id = Undefined
    \/ data.user_id = Undefined
    \/ data.host_id = Undefined

\* Variant of the write that stores nothing when an accepted booking of the
\* listing overlaps the new one (a conditional write).
BookingsAfterAddIfFree(store, validated) ==
    IF \E i \in DOMAIN store :
          /\ QueryMatches(store[i], validated.listing_id)
          /\ Overlaps(store[i], validated.start_time, validated.end_time)
    THEN store
    ELSE AddDocAt(store, NewBookingId(store), validated)

\* The bookings collection after the addDoc of the validated data.
BookingsAfterAdd(store, validated) ==
    AddDocAt(store, NewBookingId(store), validated)

\* -------------------------------------------------------- createNotification
\* The argument createNotification receives as notificationData: the object
\* its signature asks for.
\* Its optional member read is "undefined" when the caller passes none.
ObjectArg(user_id, type, booking_id, listing_id) ==
    [tag |-> "object", str |-> Undefined, user_id |-> user_id, type |-> type,
     booking_id |-> booking_id, listing_id |-> listing_id, read |-> Undefined]
\* A string (or undefined) passed where the object is expected.
StringArg(s) ==
    [tag |-> "string", str |-> s, user_id |-> Undefined, type |-> Undefined,
     booking_id |-> 0, listing_id |-> Undefined, read |-> Undefined]

\* Variant of the document in which the argument is spread last, so that a
\* read member of the argument overrides read: false.
NotificationWithTimestampSpreadLast(notificationData) ==
    [user_id |-> notificationData.user_id,
     type |-> notificationData.type,
     booking_id |-> notificationData.booking_id,
     listing_id |-> notificationData.listing_id,
     spread |-> notificationData.str,
     read |-> notificationData.read = "true"]

\* {...notificationData, created_at: serverTimestamp(), read: false}: the
\* spread of a string yields its characters under numeric keys (spread), none
\* of the named fields; further positional arguments are ignored.  A read
\* member of the argument is overridden by read: false.
NotificationWithTimestamp(notificationData) ==
    [user_id |-> notificationData.user_id,
     type |-> notificationData.type,
     booking_id |-> notificationData.booking_id,
     listing_id |-> notificationData.listing_id,
     spread |-> notificationData.str,
     read |-> FALSE]

\* ------------------------------------------------------------------ flows
NoTime == BadTimeString
NoBookingData ==
    [listing_id |-> Undefined, user_id |-> Undefined, host_id |-> Undefined,
     start_time |-> NoTime, end_time |-> NoTime, total_price |-> Number(0),
     status |-> Undefined]
NoValidated ==
    [listing_id |-> Undefined, user_id |-> Undefined, host_id |-> Undefined,
     start_time |-> NoTime, end_time |-> NoTime, total_price |-> 0,
     status |-> "pending", created_at |-> NoTime,
     updated_at |-> NoTimestamp, cancelled_at |-> NoTimestamp]
NoReturn == [threw |-> FALSE, error |-> "none", docs |-> <<>>]
NoQuery ==
    [called |-> FALSE, listingId |-> Undefined, startTime |-> NoTime,
     endTime |-> NoTime, outcome |-> "none", ret |-> NoReturn]

\* Each process is one device; its signed-in user, when one is signed in.
DeviceUser(p) == IF p = "p1" THEN "bob" ELSE "carol"

\* A process with no call running.  kind: "screen" (handleBooking) or "api"
\* (a bare createBooking call).  docsAtRead and queryOutcome record, for the
\* properties, the size of the bookings collection when the overlap query
\* was answered and how it was answered.
IdleFlow ==
    [pc |-> "idle", kind |-> "none", uid |-> NoUser,
     bookingData |-> NoBookingData, listingUserId |-> Undefined,
     overlappingBookings |-> NoReturn, queryOutcome |-> "none",
     docsAtRead |-> 0,
     validated |-> NoValidated, hostId |-> Undefined, bookingId |-> 0,
     result |-> "none", error |-> "none"]

\* The flow ends: result is what the caller sees ("returned", "threw" for a
\* bare call; the alert shown for the screen).  The locals go out of scope;
\* the caller of a bare call still holds its arguments and the identifier
\* the call returned.
Finish(f, result, error) ==
    [IdleFlow EXCEPT !.pc = "done", !.kind = f.kind, !.result = result,
                     !.error = error, !.queryOutcome = f.queryOutcome,
                     !.uid = IF f.kind = "api" THEN f.uid ELSE NoUser,
                     !.bookingId = IF f.kind = "api" THEN f.bookingId ELSE 0,
                     !.bookingData = IF f.kind = "api" THEN f.bookingData
                                     ELSE NoBookingData]

\* createBooking throws: a bare call rejects with the error; handleBooking's
\* catch logs it and shows the failure alert.
Throw(f, error) ==
    IF f.kind = "screen" THEN Finish(f, "alert-failed", "none")
    ELSE Finish(f, "threw", error)

\* createBooking from its entry to its first await (the listing lookup).
EnterCreateBooking(f, bookingData) ==
    LET currentUser == f.uid
        validated == ValidatedBookingData(bookingData, currentUser, DeviceNow)
        g == [f EXCEPT !.bookingData = bookingData]
    IN  IF currentUser = NoUser THEN Throw(g, "unauthenticated")
        ELSE IF DateError(validated) # "none"
        THEN Throw([g EXCEPT !.validated = validated], DateError(validated))
        ELSE [g EXCEPT !.validated = validated, !.pc = "getListing"]

\* The listing state of the detail screen, as loadListing builds it.
LoadedListing(id, listingData) ==
    [id |-> id,
     user_id |-> IF ~Falsy(listingData.user_id) THEN listingData.user_id
                 ELSE IF ~Falsy(listingData.host_id) THEN listingData.host_id
                 ELSE Unknown,
     price_per_hour |-> listingData.price_per_hour]

\* bookingData as handleBooking builds it from the selected slot [s, e).
ScreenBookingData(listing, uid, s, e) ==
    [listing_id |-> listing.id,
     user_id |-> uid,
     host_id |-> IF Falsy(listing.user_id) THEN Unknown ELSE listing.user_id,
     start_time |-> IsoString(s),
     end_time |-> IsoString(e),
     total_price |-> Number((e - s) * listing.price_per_hour),
     status |-> "pending"]

\* Calls in flight that may still write a booking.
InFlight == {p \in Procs : flow[p].pc \in {"overlapCheck", "getListing", "addBooking"}}
\* A new call may start while the store has room for its booking.
Room == Cardinality(DOMAIN bookings) + Cardinality(InFlight) < MaxBookings

\* The slot selected on the screen: none, or the times of a slot the Calendar
\* passed to onSelectTimeSlot (always parsable, so the screen's invalid-date
\* alert has no input here).
NoSelection == [chosen |-> FALSE, s |-> 0, e |-> 0]
Selections ==
    {NoSelection} \cup
    {[chosen |-> TRUE, s |-> s, e |-> e] : s \in Times, e \in Times}

\* Variant of the rejection test that needs two overlapping bookings.
SlotTakenSeveral(r) == ~r.threw /\ Len(r.docs) > 1

\* overlappingBookings.length > 0, reached only when the call returned.
SlotTaken(r) == ~r.threw /\ Len(r.docs) > 0

\* ------------------------------------------------- handleBooking (screen)
\* From the button press to the await of getOverlappingBookings.
HandleBooking(p) ==
    /\ flow[p].pc \in {"idle", "done"}
    /\ Room
    /\ \E uid \in {DeviceUser(p), NoUser}, l \in DOMAIN listings,
          sel \in Selections :
          LET listing == LoadedListing(l, listings[l])
              f == [IdleFlow EXCEPT !.kind = "screen", !.uid = uid,
                                    !.listingUserId = listing.user_id]
          IN  flow' = [flow EXCEPT ![p] =
                  IF uid = NoUser THEN Finish(f, "alert-signin", "none")
                  ELSE IF ~sel.chosen THEN Finish(f, "alert-select", "none")
                  ELSE IF sel.s >= sel.e THEN Finish(f, "alert-order", "none")
                  ELSE [f EXCEPT !.pc = "overlapCheck",
                                 !.bookingData =
                                     ScreenBookingData(listing, uid, sel.s, sel.e)]]
    /\ UNCHANGED <<listings, bookings, notifications, lastQuery, faults, rest>>

\* The overlap query is answered; handleBooking rejects, or goes on into
\* createBooking up to its listing lookup.
OverlapCheck(p) ==
    /\ flow[p].pc = "overlapCheck"
    /\ \E outcome \in QueryAnswers :
          LET f == flow[p]
              r == GetOverlappingBookings(bookings, f.bookingData.listing_id,
                       f.bookingData.start_time, f.bookingData.end_time, outcome)
              g == [f EXCEPT !.overlappingBookings = r,
                             !.queryOutcome = outcome,
                             !.docsAtRead = Cardinality(DOMAIN bookings)]
          IN  flow' = [flow EXCEPT ![p] =
                  IF SlotTaken(r)
                  THEN Finish(g, "alert-booked", "none")
                  ELSE EnterCreateBooking(g, g.bookingData)]
    /\ UNCHANGED <<listings, bookings, notifications, lastQuery, faults, rest>>

\* ------------------------------------------------- createBooking (steps)
\* await getDoc(doc(db, 'listings', listing_id)), then the host update.
GetListing(p) ==
    /\ flow[p].pc = "getListing"
    /\ \E outcome \in DocAnswers :
          LET f == flow[p]
              id == f.validated.listing_id
          IN  flow' = [flow EXCEPT ![p] =
                  IF outcome # "ok" THEN Throw(f, outcome)
                  ELSE IF LookupError(listings, id) # "none"
                  THEN Throw(f, LookupError(listings, id))
                  ELSE LET hostId == ListingHostId(listings[id])
                       IN  [f EXCEPT !.hostId = hostId,
                                     !.validated = WithResolvedHost(f.validated, hostId),
                                     !.pc = "addBooking"]]
    /\ UNCHANGED <<listings, bookings, notifications, lastQuery, faults, rest>>

\* await addDoc(collection(db, 'bookings'), validatedBookingData)
AddBooking(p) ==
    /\ flow[p].pc = "addBooking"
    /\ \E outcome \in DocAnswers :
          LET f == flow[p]
          IN  IF HasUndefinedField(f.validated)
              THEN /\ flow' = [flow EXCEPT ![p] = Throw(f, "invalid-argument")]
                   /\ UNCHANGED bookings
              ELSE IF outcome # "ok"
              THEN /\ flow' = [flow EXCEPT ![p] = Throw(f, outcome)]
                   /\ UNCHANGED bookings
              ELSE /\ bookings' = BookingsAfterAdd(bookings, f.validated)
                   /\ flow' = [flow EXCEPT ![p] =
                          [f EXCEPT !.bookingId = NewBookingId(bookings),
                                    !.pc = "notifyHost"]]
    /\ UNCHANGED <<listings, notifications, lastQuery, faults, rest>>

\* await createNotification(hostId, 'booking_request', ...) inside
\* createBooking, then createBooking returns; handleBooking goes on to its own
\* createNotification call.
NotifyHost(p) ==
    /\ flow[p].pc = "notifyHost"
    /\ \E outcome \in DocAnswers :
          LET f == flow[p]
          IN  IF outcome # "ok"
              THEN /\ flow' = [flow EXCEPT ![p] = Throw(f, outcome)]
                   /\ UNCHANGED notifications
              ELSE /\ notifications' = AddDoc(notifications,
                          NotificationWithTimestamp(StringArg(f.hostId)))
                   /\ flow' = [flow EXCEPT ![p] =
                          IF f.kind = "screen" /\ ~Falsy(f.listingUserId)
                          THEN [f EXCEPT !.pc = "notifyHostScreen"]
                          ELSE IF f.kind = "screen"
                          THEN Finish(f, "alert-sent", "none")
                          ELSE Finish(f, "returned", "none")]
    /\ UNCHANGED <<listings, bookings, lastQuery, faults, rest>>

\* await createNotification(listing.user_id, 'booking_request', ...) of
\* handleBooking, then the success alert.
NotifyHostScreen(p) ==
    /\ flow[p].pc = "notifyHostScreen"
    /\ \E outcome \in DocAnswers :
          LET f == flow[p]
          IN  IF outcome # "ok"
              THEN /\ flow' = [flow EXCEPT ![p] = Throw(f, outcome)]
                   /\ UNCHANGED notifications
              ELSE /\ notifications' = AddDoc(notifications,
                          NotificationWithTimestamp(StringArg(f.listingUserId)))
                   /\ flow' = [flow EXCEPT ![p] = Finish(f, "alert-sent", "none")]
    /\ UNCHANGED <<listings, bookings, lastQuery, faults, rest>>

\* ------------------------------------------------------ updateBookingStatus
\* The users of the application.
Users == {"alice", "bob", "carol"}

\* The security rule of get and of update on a booking: the requester is
\* signed in and is the booking's driver or host (no booking document has a
\* listing_user_id field).
BookingRuleAllows(uid, data) ==
    uid # NoUser /\ (data.user_id = uid \/ data.host_id = uid)

\* How the store may answer getDoc or updateDoc of the booking id for the
\* signed-in user uid.  The rule reads resource.data: for an identifier no
\* document has, resource is null, and the request is answered with the
\* empty snapshot or denied, depending on how the rules are deployed.
BookingAnswers(uid, store, id) ==
    IF id \notin DOMAIN store THEN DocAnswers \cup {"permission-denied"}
    ELSE IF ~BookingRuleAllows(uid, store[id]) THEN {"permission-denied"}
    ELSE DocAnswers

\* Variant of the lookup without the exists() test: data() of a missing
\* document is undefined and reading its listing_id throws a TypeError.
BookingLookupErrorUnchecked(store, id) ==
    IF id \notin DOMAIN store THEN "type-error" ELSE "none"

\* The error the booking lookup throws for the snapshot it got, "none" when
\* the booking exists.
BookingLookupError(store, id) ==
    IF id \notin DOMAIN store THEN "booking-not-found" ELSE "none"

\* updateData: the new status and the fields that get serverTimestamp().
UpdateData(status) ==
    [status |-> status,
     stamps |-> IF status = "cancelled" THEN {"updated_at", "cancelled_at"}
                ELSE {"updated_at"}]

\* Variant of the update that also rewrites created_at.
UpdatedDocRestamped(data, updateData, serverTime) ==
    [data EXCEPT !.status = updateData.status,
                 !.created_at = IsoString(serverTime),
                 !.updated_at = ServerTimestamp(serverTime),
                 !.cancelled_at = IF "cancelled_at" \in updateData.stamps
                                  THEN ServerTimestamp(serverTime) ELSE @]

\* The document after updateDoc(ref, updateData): the named fields are
\* replaced, every other field keeps its value; the server fills in its time.
UpdatedDoc(data, updateData, serverTime) ==
    [data EXCEPT !.status = updateData.status,
                 !.updated_at = ServerTimestamp(serverTime),
                 !.cancelled_at = IF "cancelled_at" \in updateData.stamps
                                  THEN ServerTimestamp(serverTime) ELSE @]

\* The bookings collection after updateDoc on the booking id.
BookingsAfterUpdate(store, id, updateData, serverTime) ==
    [store EXCEPT ![id] = UpdatedDoc(store[id], updateData, serverTime)]

\* The notifications updateBookingStatus creates (none or one), from the new
\* status, the userId argument and the booking as it was read.
StatusNotification(status, userId, bookingData, bookingId) ==
    IF status = "confirmed"
    THEN <<ObjectArg(bookingData.user_id, "booking_accepted", bookingId,
                     bookingData.listing_id)>>
    ELSE IF status = "cancelled" /\ userId = bookingData.host_id
    THEN <<ObjectArg(bookingData.user_id, "booking_declined", bookingId,
                     bookingData.listing_id)>>
    ELSE IF status = "cancelled" /\ userId = bookingData.user_id
    THEN <<ObjectArg(bookingData.host_id, "booking_cancelled", bookingId,
                     bookingData.listing_id)>>
    ELSE <<>>

\* No call running.  caller: "api" (a bare call) or "pending" (handleAccept /
\* handleDecline of the pending bookings screen); uid is the signed-in user
\* of the calling device; calls counts the bare calls made so far.
IdleUbs ==
    [pc |-> "idle", caller |-> "none", uid |-> NoUser, bookingId |-> 0,
     status |-> "pending", userId |-> Undefined, bookingData |-> NoValidated,
     result |-> "none", error |-> "none", calls |-> 0]

\* The call ends: it returned or threw; its caller still holds the
\* arguments, the booking it read goes out of scope.
UbsFinish(u, result, error) ==
    [u EXCEPT !.pc = "done", !.bookingData = NoValidated,
              !.result = result, !.error = error]

\* bookingDoc.data(), as far as the call goes on to read it.
BookingDataRead(data) ==
    [NoValidated EXCEPT !.listing_id = data.listing_id,
                        !.user_id = data.user_id,
                        !.host_id = data.host_id]

\* updateBookingStatus from its entry through the answer to its getDoc.
EnterUpdateBookingStatus(caller, uid, bookingId, status, userId, outcome) ==
    LET u == [IdleUbs EXCEPT !.caller = caller, !.uid = uid,
                             !.bookingId = bookingId, !.status = status,
                             !.userId = userId,
                             !.calls = IF caller = "api" THEN ubs.calls + 1
                                       ELSE ubs.calls]
    IN  IF outcome # "ok" THEN UbsFinish(u, "threw", outcome)
        ELSE IF BookingLookupError(bookings, bookingId) # "none"
        THEN UbsFinish(u, "threw", BookingLookupError(bookings, bookingId))
        ELSE [u EXCEPT !.pc = "updateDoc",
                       !.bookingData = BookingDataRead(bookings[bookingId])]

\* A status change of a screen may start while the store has room for its
\* notification and for those of the changes under way.
NotificationRoom ==
    Cardinality(DOMAIN notifications)
    + Cardinality({s \in DOMAIN screen : screen[s].pc = "notify"})
    + (IF ubs.pc \in {"updateDoc", "getListing", "notify"} THEN 1 ELSE 0)
        < MaxNotifications

\* A bare call updateBookingStatus(bookingId, status, userId) from the device
\* of uid, for a stored booking or an identifier no booking has.
UpdateBookingStatus ==
    /\ ubs.pc \in {"idle", "done"}
    /\ ubs.calls < MaxCalls
    /\ \E uid \in Users, bookingId \in DOMAIN bookings \cup {NewBookingId(bookings)},
          status \in BookingStatus, userId \in Users :
          \E outcome \in BookingAnswers(uid, bookings, bookingId) :
              ubs' = EnterUpdateBookingStatus("api", uid, bookingId, status,
                                              userId, outcome)
    /\ UNCHANGED <<listings, bookings, notifications, flow, lastQuery, faults, logs,
                   clock, skew, purge, screen, pendingList, lastFilter>>

\* await updateDoc(bookingRef, updateData): fails when the booking is gone.
UbsUpdateDoc ==
    /\ ubs.pc = "updateDoc"
    /\ \E outcome \in BookingAnswers(ubs.uid, bookings, ubs.bookingId) :
          IF ubs.bookingId \notin DOMAIN bookings
          THEN /\ ubs' = UbsFinish(ubs, "threw", "not-found")
               /\ UNCHANGED bookings
          ELSE IF outcome # "ok"
          THEN /\ ubs' = UbsFinish(ubs, "threw", outcome)
               /\ UNCHANGED bookings
          ELSE /\ bookings' = BookingsAfterUpdate(bookings, ubs.bookingId,
                                  UpdateData(ubs.status), clock)
               /\ ubs' = [ubs EXCEPT !.pc = "getListing"]
    /\ UNCHANGED <<listings, notifications, flow, lastQuery, faults, logs,
                   clock, skew, purge, screen, pendingList, lastFilter>>

\* await getDoc(doc(db, 'listings', bookingData.listing_id)) for the title of
\* the message; its failure is logged only.  Then the call returns when
\* there is nothing to notify.
UbsGetListing ==
    /\ ubs.pc = "getListing"
    /\ ubs' = IF StatusNotification(ubs.status, ubs.userId, ubs.bookingData,
                                    ubs.bookingId) = <<>>
              THEN UbsFinish(ubs, "returned", "none")
              ELSE [ubs EXCEPT !.pc = "notify"]
    /\ UNCHANGED <<listings, bookings, notifications, flow, lastQuery, faults, logs,
                   clock, skew, purge, screen, pendingList, lastFilter>>

\* await createNotification({...}), then the call returns.
UbsNotify ==
    /\ ubs.pc = "notify"
    /\ \E outcome \in DocAnswers :
          LET note == StatusNotification(ubs.status, ubs.userId,
                                         ubs.bookingData, ubs.bookingId)[1]
          IN  IF outcome # "ok"
              THEN /\ ubs' = UbsFinish(ubs, "threw", outcome)
                   /\ UNCHANGED notifications
              ELSE /\ notifications' =
                          AddDoc(notifications, NotificationWithTimestamp(note))
                   /\ ubs' = UbsFinish(ubs, "returned", "none")
    /\ UNCHANGED <<listings, bookings, flow, lastQuery, faults, logs,
                   clock, skew, purge, screen, pendingList, lastFilter>>

\* ------------------------------------------------ booking detail screen
\* Two devices show the booking detail screen: the host's and the driver's.
ScreenIds == {"host", "driver"}
ScreenUser(s) == IF s = "host" THEN "alice" ELSE "bob"

\* The booking state of the screen (null before the first load).
NoCopy ==
    [loaded |-> FALSE, id |-> 0, status |-> "pending", user_id |-> Undefined,
     host_id |-> Undefined, listing_id |-> Undefined]
CopyOf(id, data) ==
    [loaded |-> TRUE, id |-> id, status |-> data.status,
     user_id |-> data.user_id, host_id |-> data.host_id,
     listing_id |-> data.listing_id]

\* pc: "closed" (not mounted), "loading" (spinner, no buttons), "shown",
\* "notify" (a handler waits for its createNotification).
ClosedScreen == [pc |-> "closed", booking |-> NoCopy, note |-> StringArg(Undefined)]

\* The buttons the screen renders for its copy.
IsHost(s) == ScreenUser(s) = screen[s].booking.host_id
IsDriver(s) == ScreenUser(s) = screen[s].booking.user_id
CanManageBooking(s) == IsHost(s) /\ screen[s].booking.status = "pending"
CanCancelBooking(s) == IsDriver(s) /\ screen[s].booking.status = "pending"

\* loadBookingDetails: on mount, on coming back to the screen, and as the
\* refresh a handler starts.  The booking is copied at its getDoc; the
\* listing read that follows changes nothing of the copy.
LoadBookingDetails(s) ==
    /\ screen[s].pc \in {"closed", "shown", "loading"}
    /\ \E id \in IF screen[s].pc = "loading" THEN {screen[s].booking.id}
                 ELSE DOMAIN bookings \cup purge.deleted :
          \E outcome \in BookingAnswers(ScreenUser(s), bookings, id) :
              screen' = [screen EXCEPT ![s] =
                  IF outcome # "ok"
                  THEN [@ EXCEPT !.pc = IF screen[s].booking.loaded
                                        THEN "shown" ELSE "closed"]
                  ELSE IF id \notin DOMAIN bookings THEN ClosedScreen
                  ELSE [@ EXCEPT !.pc = "shown",
                                 !.booking = CopyOf(id, bookings[id])]]
    /\ UNCHANGED <<listings, bookings, notifications, flow, lastQuery, faults, logs,
                   clock, skew, purge, ubs, pendingList, lastFilter>>

\* Variant of the update object in which accepting completes the booking.
ScreenUpdateDataCompleting(status) ==
    [status |-> IF status = "confirmed" THEN "completed" ELSE status,
     stamps |-> {"updated_at"}]

\* The update object of the three handlers: status and updated_at.
ScreenUpdateData(status) == [status |-> status, stamps |-> {"updated_at"}]

\* A handler from the button press through its updateDoc: on success it goes
\* on to notify, on failure it shows the alert and the copy stays.
PressButton(s, status, note) ==
    /\ screen[s].pc = "shown"
    /\ screen[s].booking.loaded
    /\ NotificationRoom
    /\ LET id == screen[s].booking.id
       IN  \E outcome \in BookingAnswers(ScreenUser(s), bookings, id) :
              IF id \notin DOMAIN bookings \/ outcome # "ok"
              THEN UNCHANGED <<bookings, screen>>
              ELSE /\ bookings' = BookingsAfterUpdate(bookings, id,
                                      ScreenUpdateData(status), clock)
                   /\ screen' = [screen EXCEPT ![s].pc = "notify",
                                               ![s].note = note]
    /\ UNCHANGED <<listings, notifications, flow, lastQuery, faults, logs,
                   clock, skew, purge, ubs, pendingList, lastFilter>>

HandleAcceptBooking(s) ==
    /\ CanManageBooking(s)
    /\ PressButton(s, "confirmed",
           ObjectArg(screen[s].booking.user_id, "booking_accepted",
                     screen[s].booking.id, screen[s].booking.listing_id))

HandleDeclineBooking(s) ==
    /\ CanManageBooking(s)
    /\ PressButton(s, "cancelled",
           ObjectArg(screen[s].booking.user_id, "booking_declined",
                     screen[s].booking.id, screen[s].booking.listing_id))

HandleCancelBooking(s) ==
    /\ CanCancelBooking(s)
    /\ PressButton(s, "cancelled",
           ObjectArg(screen[s].booking.host_id, "booking_cancelled",
                     screen[s].booking.id, screen[s].booking.listing_id))

\* await createNotification({...}) of a handler; then the handler starts the
\* refresh (the spinner replaces the buttons), or shows the failure alert.
ScreenNotify(s) ==
    /\ screen[s].pc = "notify"
    /\ \E outcome \in DocAnswers :
          IF outcome # "ok"
          THEN /\ screen' = [screen EXCEPT ![s].pc = "shown",
                                           ![s].note = StringArg(Undefined)]
               /\ UNCHANGED notifications
          ELSE /\ notifications' = AddDoc(notifications,
                      NotificationWithTimestamp(screen[s].note))
               /\ screen' = [screen EXCEPT ![s].pc = "loading",
                                           ![s].note = StringArg(Undefined)]
    /\ UNCHANGED <<listings, bookings, flow, lastQuery, faults, logs,
                   clock, skew, purge, ubs, pendingList, lastFilter>>

\* ---------------------------------------------- pending bookings screen
\* The host whose device shows the pending bookings screen.
PendingUser == "alice"

\* loadPendingBookings: the listings whose host_id is the user, then their
\* pending bookings.  An 'in' filter over no listing is rejected and the
\* list stays as it is.
LoadPendingBookings ==
    /\ LET listingIds == {l \in DOMAIN listings :
                              listings[l].host_id = PendingUser}
       IN  \E outcome \in QueryAnswers :
              pendingList' =
                  IF listingIds = {} \/ outcome # "ok" THEN pendingList
                  ELSE {i \in DOMAIN bookings :
                           /\ bookings[i].listing_id \in listingIds
                           /\ bookings[i].status = "pending"}
    /\ UNCHANGED <<listings, bookings, notifications, flow, lastQuery, faults, logs,
                   clock, skew, purge, ubs, screen, lastFilter>>

\* handleAccept / handleDecline on an item of the list: updateBookingStatus
\* with the user's uid, up to the answer to its getDoc.
PressPending(status) ==
    /\ ubs.pc \in {"idle", "done"}
    /\ NotificationRoom
    /\ \E bookingId \in pendingList :
          \E outcome \in BookingAnswers(PendingUser, bookings, bookingId) :
              ubs' = EnterUpdateBookingStatus("pending", PendingUser, bookingId,
                                              status, PendingUser, outcome)
    /\ UNCHANGED <<listings, bookings, notifications, flow, lastQuery, faults, logs,
                   clock, skew, purge, screen, pendingList, lastFilter>>

HandleAccept == PressPending("confirmed")
HandleDecline == PressPending("cancelled")

\* ------------------------------------------------------------ purge job
\* The days the clock stops at: the first two, and those from the end of
\* the retention window on.
Instants == {t \in 0..MaxClock : t <= 1 \/ t >= RetentionDays}

Tick ==
    /\ \E t \in Instants : t > clock /\ clock' = t
    /\ UNCHANGED <<listings, bookings, notifications, flow, lastQuery, faults, logs,
                   skew, purge, ubs, screen, pendingList, lastFilter>>

\* The clock passes the retention window.
TickFar == Tick /\ clock' - clock > RetentionDays

NoPurge == [pc |-> "idle", snapshot |-> {}, deleted |-> {}]

\* deleteOldCancelledBookings, from its start through the answer to its
\* query: cancelled bookings with a cancelled_at before fifteenDaysAgo.
PurgeQuery ==
    /\ purge.pc = "idle"
    /\ LET fifteenDaysAgo == clock - RetentionDays
       IN  purge' = [purge EXCEPT
               !.pc = "delete",
               !.snapshot = {i \in DOMAIN bookings :
                                /\ bookings[i].status = "cancelled"
                                /\ bookings[i].cancelled_at.kind = "timestamp"
                                /\ bookings[i].cancelled_at.t < fifteenDaysAgo}]
    /\ UNCHANGED <<listings, bookings, notifications, flow, lastQuery, faults, logs,
                   clock, skew, ubs, screen, pendingList, lastFilter>>

\* await Promise.all(deletePromises): every document of the snapshot is
\* deleted, whatever it holds by now.
PurgeDelete ==
    /\ purge.pc = "delete"
    /\ bookings' = [i \in DOMAIN bookings \ purge.snapshot |-> bookings[i]]
    /\ purge' = [pc |-> "idle", snapshot |-> {},
                 deleted |-> purge.deleted \cup (purge.snapshot \cap DOMAIN bookings)]
    /\ UNCHANGED <<listings, notifications, flow, lastQuery, faults, logs,
                   clock, skew, ubs, screen, pendingList, lastFilter>>

\* ------------------------------------------------ notifications library
\* The read member of a NotificationData: absent, true or false.
ReadValues == {Undefined, "true", "false"}

\* The arguments of the bare createNotification calls: the object for a
\* recipient, with any read member, and the string of the positional call.
NotificationArgs ==
    {[ObjectArg(u, "booking_request", 1, "L1") EXCEPT !.read = r] :
        u \in {"alice", "bob"}, r \in ReadValues}
    \cup {StringArg("alice")}

NoNote ==
    [op |-> "none", read |-> Undefined, id |-> 0, uid |-> NoUser,
     result |-> "none"]

\* match /notifications/{notificationId}: update by the recipient only.
NotificationRuleAllows(uid, data) == uid # NoUser /\ data.user_id = uid

\* How the store may answer updateDoc of the notification id for the
\* signed-in user uid: updateDoc of a document that does not exist fails.
NotificationAnswers(uid, coll, id) ==
    IF id \notin DOMAIN coll
    THEN {"not-found", "permission-denied"} \cup (DocAnswers \ {"ok"})
    ELSE IF ~NotificationRuleAllows(uid, coll[id]) THEN {"permission-denied"}
    ELSE DocAnswers

\* Variant of the update that flips the flag.
MarkedAsReadToggling(data) == [data EXCEPT !.read = ~@]

\* updateDoc(notificationRef, { read: true }) on the document data.
MarkedAsRead(data) == [data EXCEPT !.read = TRUE]

\* A bare createNotification(notificationData) call.
CreateNotification ==
    /\ Cardinality(DOMAIN notifications) < MaxCreated
    /\ \E notificationData \in NotificationArgs, outcome \in DocAnswers :
          /\ notifications' =
                IF outcome = "ok"
                THEN AddDoc(notifications,
                            NotificationWithTimestamp(notificationData))
                ELSE notifications
          /\ lastNote' = [op |-> "create", read |-> notificationData.read,
                          id |-> NewId(notifications), uid |-> NoUser,
                          result |-> outcome]
    /\ UNCHANGED <<listings, bookings, flow, lastQuery, faults, clock, skew,
                   purge, ubs, screen, pendingList, lastFilter, lastListing,
                   calendar>>

\* markNotificationAsRead(notificationId) on the device of uid, for a
\* stored notification or an identifier no notification has.
MarkNotificationAsRead ==
    /\ \E uid \in {"alice", "bob"},
          notificationId \in DOMAIN notifications \cup {NewId(notifications)} :
          \E outcome \in NotificationAnswers(uid, notifications, notificationId) :
              /\ notifications' =
                    IF outcome = "ok"
                    THEN [notifications EXCEPT ![notificationId] =
                             MarkedAsRead(@)]
                    ELSE notifications
              /\ lastNote' = [op |-> "mark", read |-> Undefined,
                              id |-> notificationId, uid |-> uid,
                              result |-> outcome]
    /\ UNCHANGED <<listings, bookings, flow, lastQuery, faults, clock, skew,
                   purge, ubs, screen, pendingList, lastFilter, lastListing,
                   calendar>>

\* ------------------------------------------------------ listings library
\* The signed-in user of a device calling the library: a user or nobody.
ListingCallers == {"alice", "bob", NoUser}

\* The Partial<Listing> arguments of updateListing: a new price, or a new
\* owner.
ListingUpdates ==
    {[field |-> "price_per_hour", price |-> 2, user |-> Undefined],
     [field |-> "user_id", price |-> 0, user |-> "bob"]}

\* One call: n counts the calls, pc is "idle", "deleteDoc" (deleteListing
\* waits for its deleteDoc) or "done".
NoCall ==
    [n |-> 0, pc |-> "idle", uid |-> NoUser, listingId |-> Undefined,
     result |-> "none", error |-> "none"]
NoListingCall == [upd |-> NoCall, del |-> NoCall]
ListingCalls == lastListing.upd.n + lastListing.del.n

\* Variant of the rule that admits every signed-in user.
ListingRuleAllowsSignedIn(uid, data) == uid # NoUser

\* match /listings/{listingId}: update and delete by the user in user_id or
\* host_id.
ListingRuleAllows(uid, data) ==
    uid # NoUser /\ (data.user_id = uid \/ data.host_id = uid)

\* How the store may answer updateDoc or deleteDoc of the listing id for
\* the signed-in user uid; updateDoc of a missing document fails.
ListingAnswers(uid, store, id) ==
    IF id \notin DOMAIN store
    THEN {"not-found", "permission-denied"} \cup (DocAnswers \ {"ok"})
    ELSE IF ~ListingRuleAllows(uid, store[id]) THEN {"permission-denied"}
    ELSE DocAnswers

\* The document after updateDoc(listingRef, {...data, updated_at}).
UpdatedListing(doc, data) ==
    IF data.field = "user_id" THEN [doc EXCEPT !.user_id = data.user]
    ELSE [doc EXCEPT !.price_per_hour = data.price]

\* updateListing(id, data) on the device of uid: one updateDoc.
UpdateListing ==
    /\ ListingCalls < MaxCalls
    /\ \E uid \in ListingCallers, id \in ListingIds, data \in ListingUpdates :
          \E outcome \in ListingAnswers(uid, listings, id) :
              /\ listings' = IF outcome = "ok"
                             THEN [listings EXCEPT ![id] = UpdatedListing(@, data)]
                             ELSE listings
              /\ lastListing' = [lastListing EXCEPT !.upd =
                     [n |-> @.n + 1, pc |-> "done", uid |-> uid,
                      listingId |-> id,
                      result |-> IF outcome = "ok" THEN "returned" ELSE "threw",
                      error |-> IF outcome = "ok" THEN "none" ELSE outcome]]
    /\ UNCHANGED <<bookings, notifications, flow, lastQuery, faults, clock,
                   skew, purge, ubs, screen, pendingList, lastFilter, lastNote,
                   calendar>>

\* deleteListing(listingId) on the device of uid, from its entry through
\* the answer to its getDoc and its two tests.
DeleteListing ==
    /\ lastListing.del.pc \in {"idle", "done"}
    /\ ListingCalls < MaxCalls
    /\ \E uid \in ListingCallers, listingId \in ListingIds, outcome \in DocAnswers :
          LET call == [n |-> lastListing.del.n + 1, pc |-> "done", uid |-> uid,
                       listingId |-> listingId, result |-> "threw",
                       error |-> "none"]
          IN  lastListing' = [lastListing EXCEPT !.del =
                  IF uid = NoUser THEN [call EXCEPT !.error = "not-logged-in"]
                  ELSE IF outcome # "ok" THEN [call EXCEPT !.error = outcome]
                  ELSE IF listingId \notin DOMAIN listings
                  THEN [call EXCEPT !.error = "listing-not-found"]
                  ELSE IF listings[listingId].user_id # uid
                  THEN [call EXCEPT !.error = "not-your-listing"]
                  ELSE [call EXCEPT !.pc = "deleteDoc", !.result = "none"]]
    /\ UNCHANGED <<listings, bookings, notifications, flow, lastQuery, faults,
                   clock, skew, purge, ubs, screen, pendingList, lastFilter,
                   lastNote, calendar>>

\* await deleteDoc(listingRef); return true.  Deleting a document that is
\* gone is no error.
DeleteListingDoc ==
    /\ lastListing.del.pc = "deleteDoc"
    /\ LET call == lastListing.del
       IN  \E outcome \in ListingAnswers(call.uid, listings, call.listingId)
                             \ {"not-found"} :
              /\ listings' =
                    IF outcome = "ok"
                    THEN [l \in DOMAIN listings \ {call.listingId} |-> listings[l]]
                    ELSE listings
              /\ lastListing' = [lastListing EXCEPT !.del =
                     [call EXCEPT !.pc = "done",
                         !.result = IF outcome = "ok" THEN "returned" ELSE "threw",
                         !.error = IF outcome = "ok" THEN "none" ELSE outcome]]
    /\ UNCHANGED <<bookings, notifications, flow, lastQuery, faults, clock,
                   skew, purge, ubs, screen, pendingList, lastFilter, lastNote,
                   calendar>>

\* ---------------------------------------------------------------- Calendar
\* Minutes of an hour (the factor of hour * 60 + minute) and the length of
\* a generated slot.
MinutesPerHour == 60
IntervalMinutes == 60
MinutesPerDay == 24 * MinutesPerHour

\* A time of day 'HH:mm' is the record of its two numbers.  The times of the
\* model are the half hours from 09:00 to MaxSlots hours later.
HalfHours ==
    {9 * MinutesPerHour + k * (MinutesPerHour \div 2) : k \in 0..(2 * MaxSlots)}
\* `${Math.floor(time / 60)}:${time % 60}`, both padded to two digits.
MinutesStr(time) == [h |-> time \div MinutesPerHour, m |-> time % MinutesPerHour]
\* format(new Date(isoString), 'HH:mm'): the time of day, the date dropped.
FormatHHmm(t) == MinutesStr(t % MinutesPerDay)
\* const [hour, minute] = s.split(':').map(Number); hour * 60 + minute.
ParseMinutes(s) == s.h * MinutesPerHour + s.m

\* The dates the calendar shows, as days from today; an instant is counted
\* in minutes from today's midnight.
Dates == 0..MaxDay
StartOfDay(date) == IsoString(date * MinutesPerDay)
\* 23:59:59.999 of the date: among instants on whole minutes, those before
\* it are those before the next midnight.
EndOfDay(date) == IsoString((date + 1) * MinutesPerDay)

\* The availability prop: absent, or start_time and end_time, each a time of
\* day or absent.
DefaultAvailability ==
    [start_time |-> MinutesStr(9 * MinutesPerHour),
     end_time |-> MinutesStr(17 * MinutesPerHour)]
NoTimeOfDay == [h |-> 0 - 1, m |-> 0]
NoAvailability == [given |-> FALSE, start_time |-> NoTimeOfDay, end_time |-> NoTimeOfDay]
TimeProps == {MinutesStr(t) : t \in HalfHours} \cup {NoTimeOfDay}
AvailabilityProps ==
    {NoAvailability} \cup
    {[given |-> TRUE, start_time |-> s, end_time |-> e] :
        s \in TimeProps, e \in TimeProps}

\* effectiveAvailability.start_time || defaultAvailability.start_time
EffectiveStart(availability) ==
    IF ~availability.given \/ availability.start_time = NoTimeOfDay
    THEN DefaultAvailability.start_time ELSE availability.start_time
EffectiveEnd(availability) ==
    IF ~availability.given \/ availability.end_time = NoTimeOfDay
    THEN DefaultAvailability.end_time ELSE availability.end_time

\* for (let time = startMinutes; time < endMinutes; time += intervalMinutes)
RECURSIVE SlotsFrom(_, _)
SlotsFrom(time, endMinutes) ==
    IF time >= endMinutes THEN <<>>
    ELSE LET endTime == IF time + IntervalMinutes < endMinutes
                        THEN time + IntervalMinutes ELSE endMinutes
         IN  <<[startTime |-> MinutesStr(time), endTime |-> MinutesStr(endTime)]>>
             \o SlotsFrom(time + IntervalMinutes, endMinutes)

\* generateTimeSlots(date): the slots of the availability window, the same
\* for every date.
GenerateTimeSlots(availability) ==
    SlotsFrom(ParseMinutes(EffectiveStart(availability)),
              ParseMinutes(EffectiveEnd(availability)))

\* The test of isTimeSlotBooked on one booked slot: the start of the
\* generated slot lies in [slot.startTime, slot.endTime).
StartWithin(slot, time) ==
    /\ ParseMinutes(time) >= ParseMinutes(slot.startTime)
    /\ ParseMinutes(time) < ParseMinutes(slot.endTime)

\* isTimeSlotBooked(date, time) over bookedSlots[dateKey] || [].
IsTimeSlotBooked(bookedSlots, date, time) ==
    \E k \in 1..Len(bookedSlots[date]) : StartWithin(bookedSlots[date][k], time)

\* timeSlots.filter(slot => !isTimeSlotBooked(date, slot.startTime))
AvailableTimeSlots(bookedSlots, date, timeSlots) ==
    SelectSeq(timeSlots,
              LAMBDA slot : ~IsTimeSlotBooked(bookedSlots, date, slot.startTime))

\* RECURSIVE helper: the booked slots of the documents a day's query
\* returned.
RECURSIVE BookedOf(_)
BookedOf(docs) ==
    IF docs = <<>> THEN <<>>
    ELSE <<[startTime |-> FormatHHmm(Head(docs).data.start_time.t),
            endTime |-> FormatHHmm(Head(docs).data.end_time.t)]>>
         \o BookedOf(Tail(docs))

\* The body of the loop of loadBookedSlots for one date: a query that
\* throws is logged and the date keeps no entry.
BookedSlotsOfDate(store, listingId, date, outcome) ==
    LET overlappingBookings ==
            GetOverlappingBookings(store, listingId, StartOfDay(date),
                                   EndOfDay(date), outcome)
    IN  IF overlappingBookings.threw THEN <<>>
        ELSE BookedOf(overlappingBookings.docs)

\* The component: not mounted, loading (the spinner replaces the slots), or
\* ready; its props, its bookedSlots state, how each day's query was
\* answered, and the slots last rendered for a date.
NoCalendar ==
    [pc |-> "closed", listingId |-> Undefined, availability |-> NoAvailability,
     bookedSlots |-> [d \in Dates |-> <<>>],
     outcomes |-> [d \in Dates |-> "none"],
     rendered |-> FALSE, date |-> 0, timeSlots |-> <<>>, offered |-> <<>>]

\* Mount with a listing and an availability; the effect starts
\* loadBookedSlots when there is a listingId.
MountCalendar ==
    /\ calendar.pc = "closed"
    /\ \E listingId \in ListingIds \cup {Undefined},
          availability \in AvailabilityProps :
          calendar' = [NoCalendar EXCEPT
              !.pc = IF listingId = Undefined THEN "ready" ELSE "loading",
              !.listingId = listingId,
              !.availability = availability]
    /\ UNCHANGED <<listings, bookings, notifications, flow, lastQuery, faults,
                   clock, skew, purge, ubs, screen, pendingList, lastFilter,
                   lastNote, lastListing>>

\* loadBookedSlots: one query per date shown, then setBookedSlots.
LoadBookedSlots ==
    /\ calendar.pc = "loading"
    /\ \E outcome \in [Dates -> QueryAnswers] :
          calendar' = [calendar EXCEPT
              !.pc = "ready",
              !.outcomes = outcome,
              !.bookedSlots =
                  [d \in Dates |->
                      BookedSlotsOfDate(bookings, calendar.listingId, d,
                                        outcome[d])]]
    /\ UNCHANGED <<listings, bookings, notifications, flow, lastQuery, faults,
                   clock, skew, purge, ubs, screen, pendingList, lastFilter,
                   lastNote, lastListing>>

\* renderTimeSlots(date) once loading is over: the generated slots and those
\* offered as buttons.
RenderTimeSlots ==
    /\ calendar.pc = "ready"
    /\ \E date \in Dates :
          LET timeSlots == GenerateTimeSlots(calendar.availability)
          IN  calendar' = [calendar EXCEPT
                  !.rendered = TRUE,
                  !.date = date,
                  !.timeSlots = timeSlots,
                  !.offered = AvailableTimeSlots(calendar.bookedSlots, date,
                                                 timeSlots)]
    /\ UNCHANGED <<listings, bookings, notifications, flow, lastQuery, faults,
                   clock, skew, purge, ubs, screen, pendingList, lastFilter,
                   lastNote, lastListing>>

\* ------------------------------------------- filterOldCancelledBookings
\* fifteenDaysAgo: new Date() with its date set back by 15 days.
FifteenDaysAgo(now) == [nan |-> FALSE, ms |-> now - RetentionDays]

\* Variant of the test that keeps a booking cancelled exactly 15 days ago.
KeepsBookingInclusive(booking, now) ==
    IF booking.status # "cancelled" THEN TRUE
    ELSE IF booking.cancelled_at.kind = "absent" THEN TRUE
    ELSE DateGe(NewDate(booking.cancelled_at), FifteenDaysAgo(now))

\* The callback of the filter: whether the booking is kept at time now.
KeepsBooking(booking, now) ==
    IF booking.status # "cancelled" THEN TRUE
    ELSE IF booking.cancelled_at.kind = "absent" THEN TRUE
    ELSE DateGt(NewDate(booking.cancelled_at), FifteenDaysAgo(now))

\* Variant of the function that removes the dropped bookings in place while
\* it walks the list: the booking after a removed one is never tested.
RECURSIVE FilterOldCancelledBookingsSplicing(_, _)
FilterOldCancelledBookingsSplicing(list, now) ==
    IF list = <<>> THEN <<>>
    ELSE IF KeepsBooking(Head(list).data, now)
    THEN <<Head(list)>> \o FilterOldCancelledBookingsSplicing(Tail(list), now)
    ELSE IF Tail(list) = <<>> THEN <<>>
    ELSE <<Head(Tail(list))>>
         \o FilterOldCancelledBookingsSplicing(Tail(Tail(list)), now)

\* bookings.filter(...): a new array, the kept bookings in their order.
FilterOldCancelledBookings(list, now) ==
    SelectSeq(list, LAMBDA b : KeepsBooking(b.data, now))

NoFilter == [calls |-> 0, input |-> <<>>, at |-> 0, once |-> <<>>,
             again |-> 0, twice |-> <<>>]

\* --------------------------------------------------------- specifications
EmptyStore == [i \in {} |-> NoValidated]
NoNotifications == [i \in {} |-> NotificationWithTimestamp(StringArg(Undefined))]

\* No status change, screen, purge or filter call is under way; the clocks
\* agree.
InitRest ==
    /\ clock = 0
    /\ skew = 0
    /\ purge = NoPurge
    /\ ubs = IdleUbs
    /\ screen = [s \in ScreenIds |-> ClosedScreen]
    /\ pendingList = {}
    /\ lastFilter = NoFilter
    /\ lastNote = NoNote
    /\ lastListing = NoListingCall
    /\ calendar = NoCalendar

Init ==
    /\ listings = InitListings
    /\ bookings = EmptyStore
    /\ notifications = NoNotifications
    /\ flow = [p \in Procs |-> IdleFlow]
    /\ lastQuery = NoQuery
    /\ faults = FALSE
    /\ InitRest

\* Booking flows of two devices, interleaved at every await.
Next ==
    \E p \in Procs :
        \/ HandleBooking(p)
        \/ OverlapCheck(p)
        \/ GetListing(p)
        \/ AddBooking(p)
        \/ NotifyHost(p)
        \/ NotifyHostScreen(p)

Spec == Init /\ [][Next]_vars

\* Booking flows of one device against a store whose calls may fail.
InitFaults ==
    /\ listings = InitListings
    /\ bookings = EmptyStore
    /\ notifications = NoNotifications
    /\ flow = [p \in Procs |-> IdleFlow]
    /\ lastQuery = NoQuery
    /\ faults = TRUE
    /\ InitRest

NextFaults ==
    \/ HandleBooking("p1")
    \/ OverlapCheck("p1")
    \/ GetListing("p1")
    \/ AddBooking("p1")
    \/ NotifyHost("p1")
    \/ NotifyHostScreen("p1")

SpecFaults == InitFaults /\ [][NextFaults]_vars

\* A bare createBooking call, with any arguments, against a store that holds
\* at most one booking made earlier through the booking flow.
BookingInputs ==
    [listing_id : ListingIds,
     user_id : {"bob"},
     host_id : {"carol", Undefined, Unknown},
     start_time : TimeStrings,
     end_time : TimeStrings,
     total_price : Prices,
     status : {Undefined}]

CreateBooking(p) ==
    /\ flow[p].pc = "idle"
    /\ \E uid \in {DeviceUser(p), NoUser}, bookingData \in BookingInputs :
          flow' = [flow EXCEPT ![p] =
              EnterCreateBooking([IdleFlow EXCEPT !.kind = "api", !.uid = uid],
                                 bookingData)]
    /\ UNCHANGED <<listings, bookings, notifications, lastQuery, faults, rest>>

\* A booking as the booking flow of carol's device stores it at instant 0.
FlowBooking(l, s, e) ==
    WithResolvedHost(
        ValidatedBookingData(
            ScreenBookingData(LoadedListing(l, InitListings[l]), "carol", s, e),
            "carol", 0),
        ListingHostId(InitListings[l]))

\* The slots [s, e) a flow can have booked.
Slots == {se \in Times \X Times : se[1] < se[2]}

EarlierStores ==
    {EmptyStore} \cup
    {AddDoc(EmptyStore, FlowBooking(l, se[1], se[2])) :
        l \in DOMAIN InitListings, se \in Slots}

InitCreate ==
    /\ listings = InitListings
    /\ bookings \in EarlierStores
    /\ notifications = NoNotifications
    /\ flow = [p \in Procs |-> IdleFlow]
    /\ lastQuery = NoQuery
    /\ faults = TRUE
    /\ InitRest

NextCreate ==
    \/ CreateBooking("p1")
    \/ GetListing("p1")
    \/ AddBooking("p1")
    \/ NotifyHost("p1")

SpecCreate == InitCreate /\ [][NextCreate]_vars

\* Bare createBooking calls of bob's device, with bob signed in or nobody,
\* whose argument names any user and any status, against a store that is
\* empty at first.
RequesterInputs ==
    [listing_id : {"L1", "L3"},
     user_id : {"bob", "carol", Undefined},
     host_id : {Undefined},
     start_time : {IsoString(0)},
     end_time : {IsoString(1), IsoString(0)},
     total_price : {Number(1)},
     status : BookingStatus \cup {Undefined}]

CreateBookingAs(p) ==
    /\ flow[p].pc \in {"idle", "done"}
    /\ Room
    /\ \E uid \in {DeviceUser(p), NoUser}, bookingData \in RequesterInputs :
          flow' = [flow EXCEPT ![p] =
              EnterCreateBooking([IdleFlow EXCEPT !.kind = "api", !.uid = uid],
                                 bookingData)]
    /\ UNCHANGED <<listings, bookings, notifications, lastQuery, faults, rest>>

NextRequester ==
    \/ CreateBookingAs("p1")
    \/ GetListing("p1")
    \/ AddBooking("p1")
    \/ NotifyHost("p1")

SpecRequester == InitFaults /\ [][NextRequester]_vars

\* Bare getOverlappingBookings calls against stores of up to MaxQueryDocs
\* bookings of any listing, status and interval.
QueryDocs ==
    {[FlowBooking(l, se[1], se[2]) EXCEPT !.status = st] :
        l \in DOMAIN InitListings, se \in Slots, st \in BookingStatus}

QueryStores == UNION {[1..n -> QueryDocs] : n \in 0..MaxQueryDocs}

InitQuery ==
    /\ listings = InitListings
    /\ bookings \in QueryStores
    /\ notifications = NoNotifications
    /\ flow = [p \in Procs |-> IdleFlow]
    /\ lastQuery = NoQuery
    /\ faults = TRUE
    /\ InitRest

Query ==
    /\ ~lastQuery.called
    /\ \E listingId \in ListingIds, S \in Times, E \in Times,
          outcome \in QueryAnswers :
          lastQuery' =
              [called |-> TRUE, listingId |-> listingId,
               startTime |-> IsoString(S), endTime |-> IsoString(E),
               outcome |-> outcome,
               ret |-> GetOverlappingBookings(bookings, listingId,
                           IsoString(S), IsoString(E), outcome)]
    /\ UNCHANGED <<listings, bookings, notifications, flow, faults, rest>>

NextQuery == Query

SpecQuery == InitQuery /\ [][NextQuery]_vars

\* Bare updateBookingStatus calls, one after the other, from the devices of
\* the host (alice), the driver (carol) and a third user (bob), against a
\* store of two bookings the booking flow of carol's device wrote while its
\* clock was skew days ahead of the server's; the clock runs.
Skews == {0, 1}
UpdateStores(c) ==
    LET doc(l) == [FlowBooking(l, 0, 1) EXCEPT !.created_at = IsoString(c)]
    IN  {AddDoc(AddDoc(EmptyStore, doc("L1")), doc("L2"))}

InitUpdate ==
    /\ listings = InitListings
    /\ skew \in Skews
    /\ bookings \in UpdateStores(skew)
    /\ notifications = NoNotifications
    /\ flow = [p \in Procs |-> IdleFlow]
    /\ lastQuery = NoQuery
    /\ faults = TRUE
    /\ clock = 0
    /\ purge = NoPurge
    /\ ubs = IdleUbs
    /\ screen = [s \in ScreenIds |-> ClosedScreen]
    /\ pendingList = {}
    /\ lastFilter = NoFilter
    /\ lastNote = NoNote
    /\ lastListing = NoListingCall
    /\ calendar = NoCalendar

NextUpdate ==
    \/ UpdateBookingStatus
    \/ UbsUpdateDoc
    \/ UbsGetListing
    \/ UbsNotify
    \/ TickFar

SpecUpdate == InitUpdate /\ [][NextUpdate]_vars

\* The life of one booking: the booking flow of bob's device creates it, the
\* host (alice) and the driver (bob) act on it from the booking detail
\* screen and the pending bookings screen, each on the copy it loaded; the
\* handlers of the three screens interleave at every await.
StartBookingFlow ==
    /\ bookings = EmptyStore
    /\ purge.deleted = {}
    /\ HandleBooking("p1")
    /\ flow'["p1"].bookingData \in
          {NoBookingData,
           ScreenBookingData(LoadedListing("L1", listings["L1"]), "bob", 0, 1)}

NextLifecycle ==
    \/ StartBookingFlow
    \/ OverlapCheck("p1")
    \/ GetListing("p1")
    \/ AddBooking("p1")
    \/ NotifyHost("p1")
    \/ NotifyHostScreen("p1")
    \/ \E s \in ScreenIds :
          \/ LoadBookingDetails(s)
          \/ HandleAcceptBooking(s)
          \/ HandleDeclineBooking(s)
          \/ HandleCancelBooking(s)
          \/ ScreenNotify(s)
    \/ LoadPendingBookings
    \/ HandleAccept
    \/ HandleDecline
    \/ UbsUpdateDoc
    \/ UbsGetListing
    \/ UbsNotify

SpecLifecycle == Init /\ [][NextLifecycle]_vars

\* The same screens with the clock and the scheduled purge job, every
\* handler and every run of the job running to completion before the next
\* one starts.
Quiet ==
    /\ \A p \in Procs : flow[p].pc \in {"idle", "done"}
    /\ \A s \in ScreenIds : screen[s].pc \in {"closed", "shown"}
    /\ ubs.pc \in {"idle", "done"}
    /\ purge.pc = "idle"

NextSerial ==
    \/ Quiet /\ StartBookingFlow
    \/ OverlapCheck("p1")
    \/ GetListing("p1")
    \/ AddBooking("p1")
    \/ NotifyHost("p1")
    \/ NotifyHostScreen("p1")
    \/ \E s \in ScreenIds :
          \/ (Quiet \/ screen[s].pc = "loading") /\ LoadBookingDetails(s)
          \/ Quiet /\ HandleAcceptBooking(s)
          \/ Quiet /\ HandleDeclineBooking(s)
          \/ Quiet /\ HandleCancelBooking(s)
          \/ ScreenNotify(s)
    \/ Quiet /\ LoadPendingBookings
    \/ Quiet /\ HandleAccept
    \/ Quiet /\ HandleDecline
    \/ UbsUpdateDoc
    \/ UbsGetListing
    \/ UbsNotify
    \/ Quiet /\ TickFar
    \/ Quiet /\ PurgeQuery
    \/ PurgeDelete

SpecSerial == Init /\ [][NextSerial]_vars

\* The steps that carry a started handler or run of the job to its end.
Completion ==
    \/ OverlapCheck("p1")
    \/ GetListing("p1")
    \/ AddBooking("p1")
    \/ NotifyHost("p1")
    \/ NotifyHostScreen("p1")
    \/ \E s \in ScreenIds :
          \/ screen[s].pc = "loading" /\ LoadBookingDetails(s)
          \/ ScreenNotify(s)
    \/ UbsUpdateDoc
    \/ UbsGetListing
    \/ UbsNotify
    \/ PurgeDelete

\* The serial specification with its scheduling: a started handler runs to
\* its end, time passes, and the job is run again and again (every 24
\* hours).
SpecPurge ==
    /\ Init
    /\ [][NextSerial]_vars
    /\ WF_vars(Completion)
    /\ WF_vars(Quiet /\ TickFar)
    /\ WF_vars(Quiet /\ PurgeQuery)

\* Bare calls of the notifications library against a store whose calls may
\* fail.
NextNotify ==
    \/ CreateNotification
    \/ MarkNotificationAsRead

SpecNotify == InitFaults /\ [][NextNotify]_vars

\* Bare updateListing and deleteListing calls of any user, interleaved at
\* the await of deleteListing, against a store whose calls may fail.
NextListings ==
    \/ UpdateListing
    \/ DeleteListing
    \/ DeleteListingDoc

SpecListings == InitFaults /\ [][NextListings]_vars

\* RECURSIVE helper: the documents of the identifiers ids, in ascending
\* order of identifier.
RECURSIVE DocsInOrder(_, _)
DocsInOrder(store, ids) ==
    IF ids = {} THEN <<>>
    ELSE LET least == CHOOSE i \in ids : \A j \in ids : i <= j
         IN  <<[id |-> least, data |-> store[least]]>>
             \o DocsInOrder(store, ids \ {least})

\* getUserBookings(userId): {id, ...doc.data()} of the user's bookings, the
\* timestamp fields as the store holds them.
GetUserBookings(store, userId) ==
    DocsInOrder(store, {i \in DOMAIN store : store[i].user_id = userId})

\* loadBookings of the driver's bookings screen: getBookings, then
\* filterOldCancelledBookings; a failed query is logged and nothing is shown.
LoadBookings ==
    /\ lastFilter.calls = 0
    /\ \E outcome \in DocAnswers :
          lastFilter' =
              IF outcome # "ok" THEN lastFilter
              ELSE LET userBookings == GetUserBookings(bookings, "carol")
                   IN  [lastFilter EXCEPT
                           !.calls = 1, !.input = userBookings,
                           !.at = DeviceNow,
                           !.once = FilterOldCancelledBookings(userBookings,
                                                               DeviceNow)]
    /\ UNCHANGED <<listings, bookings, notifications, flow, lastQuery, faults,
                   logs, clock, skew, purge, ubs, screen, pendingList>>

\* A status change by the host or the driver of a stored booking.
StatusChange ==
    /\ UpdateBookingStatus
    /\ ubs'.uid = ubs'.userId
    /\ ubs'.uid \in {"alice", "carol"}
    /\ ubs'.status \in {"confirmed", "cancelled"}
    /\ ubs'.bookingId \in DOMAIN bookings

\* Host and driver change the status of the driver's bookings through
\* updateBookingStatus while the days pass; the driver's bookings screen
\* reads the bookings back and filters them.
NextReadBack ==
    \/ StatusChange
    \/ UbsUpdateDoc
    \/ UbsGetListing
    \/ UbsNotify
    \/ Tick
    \/ LoadBookings

SpecReadBack == InitUpdate /\ [][NextReadBack]_vars

\* Booking flows for listing L1 and status changes from the three screens,
\* one at a time: a flow or a handler starts only when every earlier one
\* has run to its end; no backend call fails.
NextTurns ==
    \/ /\ Quiet
       /\ HandleBooking("p1")
       /\ flow'["p1"].pc = "overlapCheck"
       /\ flow'["p1"].bookingData.listing_id = "L1"
    \/ OverlapCheck("p1")
    \/ GetListing("p1")
    \/ AddBooking("p1")
    \/ NotifyHost("p1")
    \/ NotifyHostScreen("p1")
    \/ \E s \in ScreenIds :
          \/ (Quiet \/ screen[s].pc = "loading") /\ LoadBookingDetails(s)
          \/ Quiet /\ HandleAcceptBooking(s)
          \/ Quiet /\ HandleDeclineBooking(s)
          \/ Quiet /\ HandleCancelBooking(s)
          \/ ScreenNotify(s)
    \/ Quiet /\ LoadPendingBookings
    \/ Quiet /\ HandleAccept
    \/ Quiet /\ HandleDecline
    \/ UbsUpdateDoc
    \/ UbsGetListing
    \/ UbsNotify

SpecTurns == Init /\ [][NextTurns]_vars

\* The Calendar of a listing over a store of at most one booking, of any
\* listing, status, day and half-hour interval within a day.
CalendarDocs ==
    {[FlowBooking(l, 0, 1) EXCEPT
         !.start_time = IsoString(d * MinutesPerDay + se[1]),
         !.end_time = IsoString(d * MinutesPerDay + se[2]),
         !.status = st] :
        l \in DOMAIN InitListings, d \in Dates,
        se \in {x \in HalfHours \X HalfHours : x[1] < x[2]},
        st \in BookingStatus}

CalendarStores == {EmptyStore} \cup {<<b>> : b \in CalendarDocs}

InitCalendar ==
    /\ listings = InitListings
    /\ bookings \in CalendarStores
    /\ notifications = NoNotifications
    /\ flow = [p \in Procs |-> IdleFlow]
    /\ lastQuery = NoQuery
    /\ faults \in BOOLEAN
    /\ InitRest

NextCalendar ==
    \/ MountCalendar
    \/ LoadBookedSlots
    \/ RenderTimeSlots

SpecCalendar == InitCalendar /\ [][NextCalendar]_vars

\* The cancelled_at values of a Booking (a string when present), and the
\* bookings of the lists: any status; the not cancelled ones without a
\* cancelled_at or with an old one.
CancelledAtStrings ==
    {StringField(IsoString(t)) : t \in Instants} \cup {StringField(BadTimeString)}
FilterDocs ==
    {[FlowBooking("L1", 0, 1) EXCEPT !.status = st, !.cancelled_at = c] :
        st \in BookingStatus \ {"cancelled"},
        c \in {NoTimestamp, StringField(IsoString(0))}}
    \cup
    {[FlowBooking("L1", 0, 1) EXCEPT !.status = "cancelled", !.cancelled_at = c] :
        c \in CancelledAtStrings \cup {NoTimestamp}}
FilterInputs ==
    UNION {{[k \in 1..n |-> [id |-> k, data |-> docs[k]]] :
               docs \in [1..n -> FilterDocs]} : n \in 0..MaxListLen}

\* filterOldCancelledBookings(input) on a device.
Filter ==
    /\ lastFilter.calls = 0
    /\ \E input \in FilterInputs :
          lastFilter' = [lastFilter EXCEPT
              !.calls = 1, !.input = input, !.at = DeviceNow,
              !.once = FilterOldCancelledBookings(input, DeviceNow)]
    /\ UNCHANGED <<listings, bookings, notifications, flow, lastQuery, faults, logs,
                   clock, skew, purge, ubs, screen, pendingList>>

\* filterOldCancelledBookings applied to the list the first call returned.
FilterAgain ==
    /\ lastFilter.calls = 1
    /\ lastFilter' = [lastFilter EXCEPT
           !.calls = 2, !.again = DeviceNow,
           !.twice = FilterOldCancelledBookings(lastFilter.once, DeviceNow)]
    /\ UNCHANGED <<listings, bookings, notifications, flow, lastQuery, faults, logs,
                   clock, skew, purge, ubs, screen, pendingList>>

\* filterOldCancelledBookings applied to a list, and applied again to what
\* it returned, while the clock runs.
NextFilter ==
    \/ Filter
    \/ FilterAgain
    \/ Tick

SpecFilter == Init /\ [][NextFilter]_vars


\* ================================================================ claims
\* The stored bookings that overlap [S, E) on a listing, stated on ticks.
Accepted(b) == b.status \in {"pending", "confirmed"}
Conflicting(store, listingId, S, E) ==
    {i \in DOMAIN store :
        /\ store[i].listing_id = listingId
        /\ Accepted(store[i])
        /\ store[i].end_time.t > S
        /\ store[i].start_time.t < E}

\* Two distinct accepted bookings of one listing whose half-open intervals
\* share an instant.
DoubleBooked(store, i, j) ==
    /\ i # j
    /\ store[i].listing_id = store[j].listing_id
    /\ Accepted(store[i])
    /\ Accepted(store[j])
    /\ store[i].start_time.t < store[j].end_time.t
    /\ store[j].start_time.t < store[i].end_time.t

\* C1: in every reachable state no two distinct pending or confirmed bookings
\* of one listing have overlapping intervals [start_time, end_time).
C1_NoDoubleBooking ==
    \A i \in DOMAIN bookings, j \in DOMAIN bookings :
        ~DoubleBooked(bookings, i, j)

\* The write step of the flow of process p.
WriteStep(p) == flow[p].pc = "addBooking" /\ flow'[p].pc # "addBooking"

\* C2: a booking flow whose overlap read came back empty writes its pending
\* booking whatever has been stored since that read; when an accepted,
\* overlapping booking of the listing is in the store by then, the store
\* holds a double booking afterwards.
C2_StaleReadStillWrites ==
    [][\A p \in Procs :
          (/\ WriteStep(p)
           /\ flow[p].kind = "screen"
           /\ flow[p].queryOutcome = "ok"
           /\ flow[p].overlappingBookings.docs = <<>>)
          =>
          LET new == NewBookingId(bookings)
              bd == flow[p].bookingData
          IN  /\ DOMAIN bookings' = DOMAIN bookings \cup {new}
              /\ \A i \in DOMAIN bookings : bookings'[i] = bookings[i]
              /\ bookings'[new].listing_id = bd.listing_id
              /\ bookings'[new].start_time = bd.start_time
              /\ bookings'[new].end_time = bd.end_time
              /\ bookings'[new].status = "pending"
              /\ flow'[p].pc = "notifyHost"
              /\ \A i \in Conflicting(bookings, bd.listing_id,
                                      bd.start_time.t, bd.end_time.t) :
                    DoubleBooked(bookings', i, new)
      ]_vars

\* Two flows, each of which read no conflict before either wrote, have both
\* come back from createBooking, and their two pending bookings of one
\* listing overlap.
C2_Witness ==
    \E p \in Procs, q \in Procs :
        /\ p # q
        /\ flow[p].pc = "notifyHostScreen"
        /\ flow[q].pc = "notifyHostScreen"
        /\ flow[p].queryOutcome = "ok" /\ flow[q].queryOutcome = "ok"
        /\ flow[p].overlappingBookings.docs = <<>>
        /\ flow[q].overlappingBookings.docs = <<>>
        /\ flow[p].docsAtRead < flow[p].bookingId
        /\ flow[p].docsAtRead < flow[q].bookingId
        /\ flow[q].docsAtRead < flow[p].bookingId
        /\ flow[q].docsAtRead < flow[q].bookingId
        /\ bookings[flow[p].bookingId].status = "pending"
        /\ bookings[flow[q].bookingId].status = "pending"
        /\ DoubleBooked(bookings, flow[p].bookingId, flow[q].bookingId)

\* The step in which the overlap query of process p is answered.
CheckStep(p) == flow[p].pc = "overlapCheck" /\ flow'[p].pc # "overlapCheck"

\* The request of process p is rejected before creation: the slot-taken
\* alert, createBooking not entered, nothing written.
Rejected(p) ==
    /\ flow'[p].pc = "done"
    /\ flow'[p].result = "alert-booked"
    /\ bookings' = bookings
    /\ notifications' = notifications

\* An accepted booking of the listing overlaps the interval process p asks for.
RequestConflicts(p) ==
    Conflicting(bookings, flow[p].bookingData.listing_id,
                flow[p].bookingData.start_time.t,
                flow[p].bookingData.end_time.t) # {}

\* C3 (as amended): in the booking flow, whenever a pending or confirmed
\* booking of the listing overlaps the requested interval and the store
\* answers the overlap query, the request is rejected before creation:
\* createBooking is not called, no booking and no notification is written.
C3_RejectedWhenQueryAnswered ==
    [][\A p \in Procs :
          (CheckStep(p) /\ RequestConflicts(p) /\ flow'[p].queryOutcome = "ok")
          => Rejected(p)
      ]_vars

\* C3 as stated: the same whenever getOverlappingBookings returns normally,
\* which it also does on the index-not-ready error.
C3_Original ==
    [][\A p \in Procs :
          (/\ CheckStep(p)
           /\ RequestConflicts(p)
           /\ flow'[p].queryOutcome \in {"ok", "failed-precondition"})
          => Rejected(p)
      ]_vars

\* A request was rejected with the slot-taken alert.
C3_Witness ==
    \E p \in Procs :
        /\ flow[p].pc = "done"
        /\ flow[p].result = "alert-booked"
        /\ flow[p].queryOutcome = "ok"
        /\ bookings # EmptyStore

\* What a returned sequence must be to be exactly the set ids of the store.
ReturnsExactly(ret, store, ids) ==
    /\ ~ret.threw
    /\ {ret.docs[k].id : k \in 1..Len(ret.docs)} = ids
    /\ Len(ret.docs) = Cardinality(ids)
    /\ \A k \in 1..Len(ret.docs) : ret.docs[k].data = store[ret.docs[k].id]

\* C4 (as amended): when the store answers the query, getOverlappingBookings
\* returns exactly the stored bookings of the listing that are pending or
\* confirmed and satisfy end_time > S and start_time < E; a booking that only
\* touches [S, E), a cancelled or completed one, or one of another listing is
\* not returned.
C4_ReturnsExactlyOverlapping ==
    (lastQuery.called /\ lastQuery.outcome = "ok") =>
        ReturnsExactly(lastQuery.ret, bookings,
            Conflicting(bookings, lastQuery.listingId,
                        lastQuery.startTime.t, lastQuery.endTime.t))

\* C4 as stated: every call that returns, returns exactly those bookings.
C4_Original ==
    (lastQuery.called /\ ~lastQuery.ret.threw) =>
        ReturnsExactly(lastQuery.ret, bookings,
            Conflicting(bookings, lastQuery.listingId,
                        lastQuery.startTime.t, lastQuery.endTime.t))

\* A call that returned a booking lying partly inside the requested interval.
C4_Witness ==
    /\ lastQuery.called
    /\ lastQuery.outcome = "ok"
    /\ \E k \in 1..Len(lastQuery.ret.docs) :
          /\ lastQuery.ret.docs[k].data.start_time.t < lastQuery.startTime.t
          /\ lastQuery.startTime.t < lastQuery.ret.docs[k].data.end_time.t

\* C7: on the index-not-ready error (failed-precondition) the call returns an
\* empty result; on any other error of the store it throws that error.
C7_IndexNotReadyDegrades ==
    lastQuery.called =>
        /\ lastQuery.outcome = "failed-precondition" =>
              (~lastQuery.ret.threw /\ lastQuery.ret.docs = <<>>)
        /\ lastQuery.outcome \notin {"ok", "failed-precondition"} =>
              (lastQuery.ret.threw /\ lastQuery.ret.error = lastQuery.outcome)

\* The index was not ready while the store held a conflicting booking: the
\* call returned empty.
C7_Witness ==
    /\ lastQuery.called
    /\ lastQuery.outcome = "failed-precondition"
    /\ lastQuery.ret.docs = <<>>
    /\ Conflicting(bookings, lastQuery.listingId,
                   lastQuery.startTime.t, lastQuery.endTime.t) # {}

\* A bare createBooking call of process p is in the state (running or ended).
Called(p) == flow[p].kind = "api"

\* The call of process p has failed / nothing is written by the step.
Threw(p) == flow[p].pc = "done" /\ flow[p].result = "threw"
NoWrite == bookings' = bookings /\ notifications' = notifications

\* start_time >= end_time, or a time Date cannot parse.
BadDates(bd) ==
    \/ ~bd.start_time.iso
    \/ ~bd.end_time.iso
    \/ bd.start_time.t >= bd.end_time.t

\* C5: createBooking called with start_time >= end_time, or with an
\* unparsable start or end time, fails with an error and performs no write:
\* no step of the call changes the bookings or notifications collections.
C5_BadDatesRejected ==
    [][\A p \in Procs :
          (Called(p)' /\ BadDates(flow'[p].bookingData))
          => (Threw(p)' /\ NoWrite)
      ]_vars

\* An authenticated call with start_time = end_time has failed on the order
\* of its dates.
C5_Witness ==
    \E p \in Procs :
        /\ Called(p) /\ Threw(p)
        /\ flow[p].uid # NoUser
        /\ flow[p].bookingData.start_time.iso
        /\ flow[p].bookingData.start_time = flow[p].bookingData.end_time
        /\ flow[p].error = "start-not-before-end"

\* C6: createBooking itself checks the accepted bookings of the listing for
\* overlap before writing: its write step adds no booking when the store
\* holds an accepted booking of the listing that overlaps the requested
\* interval.
C6_CreateBookingChecksOverlap ==
    [][\A p \in Procs :
          (/\ Called(p)
           /\ flow[p].pc = "addBooking"
           /\ Conflicting(bookings, flow[p].validated.listing_id,
                          flow[p].validated.start_time.t,
                          flow[p].validated.end_time.t) # {})
          => bookings' = bookings
      ]_vars

BadPrice(price) == price.kind # "number" \/ price.v < 0

\* C9: createBooking validates total_price: a call whose total_price is
\* negative or not a number ends in an error, and every stored booking has a
\* total_price >= 0.
C9_PriceValidated ==
    /\ \A i \in DOMAIN bookings : bookings[i].total_price >= 0
    /\ \A p \in Procs :
          (/\ Called(p)
           /\ flow[p].pc = "done"
           /\ BadPrice(flow[p].bookingData.total_price))
          => Threw(p)

\* The owner of a listing, whichever field holds it.
Owner(listingData) ==
    IF listingData.host_id # Undefined THEN listingData.host_id
    ELSE listingData.user_id

\* C10: every booking createBooking hands to the store has a defined host_id:
\* the caller's host_id when one is given, otherwise the owner of the listing,
\* be the owner stored in host_id or only in user_id.
C10_HostResolved ==
    \A p \in Procs :
        (Called(p) /\ flow[p].pc = "addBooking")
        => LET given == flow[p].bookingData.host_id
               listingData == listings[flow[p].validated.listing_id]
           IN  /\ flow[p].validated.host_id # Undefined
               /\ flow[p].validated.host_id =
                     IF given \in {Undefined, Unknown} THEN Owner(listingData)
                     ELSE given

\* C11: whenever createBooking has returned an identifier id, the
\* notifications collection contains a notification of type booking_request
\* whose user_id is the host of the new booking, whose booking_id is id and
\* whose listing_id is the booking's listing.
C11_HostNotified ==
    \A p \in Procs :
        (Called(p) /\ flow[p].pc = "done" /\ flow[p].result = "returned")
        => \E n \in DOMAIN notifications :
              /\ notifications[n].type = "booking_request"
              /\ notifications[n].user_id = bookings[flow[p].bookingId].host_id
              /\ notifications[n].booking_id = flow[p].bookingId
              /\ notifications[n].listing_id =
                     bookings[flow[p].bookingId].listing_id

\* The step in which a bare updateBookingStatus call is made, and the step
\* in which a call returns to its caller.
UbsCallStep == ubs'.calls = ubs.calls + 1
UbsReturnStep ==
    /\ ubs.pc \in {"getListing", "notify"}
    /\ ubs'.pc = "done"
    /\ ubs'.result = "returned"

\* C12 (as amended): updateBookingStatus for a bookingId that is no document
\* of the bookings collection fails and performs no write: no booking is
\* created or changed and no notification is emitted; the error is the
\* not-found error when the lookup delivers the empty snapshot, and the
\* error of the lookup when the read is denied or the backend fails.
C12_MissingBookingRejected ==
    [][(UbsCallStep /\ ubs'.bookingId \notin DOMAIN bookings)
       => /\ ubs'.pc = "done"
          /\ ubs'.result = "threw"
          /\ ubs'.error \in {"booking-not-found", "permission-denied"}
                                \cup (DocOutcomes \ {"ok"})
          /\ bookings' = bookings
          /\ notifications' = notifications
      ]_vars

\* C12 as stated: the failure for a missing booking is always the not-found
\* error, and nothing is written.
C12_Original ==
    [][(UbsCallStep /\ ubs'.bookingId \notin DOMAIN bookings)
       => /\ ubs'.pc = "done"
          /\ ubs'.result = "threw"
          /\ ubs'.error = "booking-not-found"
          /\ bookings' = bookings
          /\ notifications' = notifications
      ]_vars

\* A call for an identifier no booking has failed with the not-found error,
\* the collections being as they were.
C12_Witness ==
    /\ ubs.pc = "done"
    /\ ubs.result = "threw"
    /\ ubs.error = "booking-not-found"
    /\ ubs.bookingId \notin DOMAIN bookings
    /\ notifications = NoNotifications
    /\ \A i \in DOMAIN bookings : bookings[i].status = "pending"

\* C13: when updateBookingStatus(bookingId, 'cancelled', u) returns, the
\* booking has a cancelled_at timestamp and that instant is not before the
\* instant of the booking's created_at.
C13_CancelledAtNotBeforeCreatedAt ==
    [][(UbsReturnStep /\ ubs.status = "cancelled")
       => LET b == bookings'[ubs.bookingId]
          IN  /\ b.cancelled_at.kind = "timestamp"
              /\ b.cancelled_at.t >= b.created_at.t
      ]_vars

\* The step in which updateBookingStatus writes.
UbsWriteStep == ubs.pc = "updateDoc" /\ ubs'.pc = "getListing"

\* C14: updateBookingStatus changes only status and updated_at of the target
\* booking, and cancelled_at exactly when the new status is cancelled;
\* created_at, listing_id, user_id, host_id, start_time, end_time and
\* total_price of that booking, and every other booking, are left unchanged,
\* and no booking is added or removed.
C14_UpdateFrame ==
    [][/\ DOMAIN bookings' = DOMAIN bookings
       /\ \A i \in DOMAIN bookings :
             IF UbsWriteStep /\ i = ubs.bookingId
             THEN /\ bookings'[i].status = ubs.status
                  /\ bookings'[i].updated_at = ServerTimestamp(clock)
                  /\ bookings'[i].cancelled_at =
                         IF ubs.status = "cancelled" THEN ServerTimestamp(clock)
                         ELSE bookings[i].cancelled_at
                  /\ bookings'[i].created_at = bookings[i].created_at
                  /\ bookings'[i].listing_id = bookings[i].listing_id
                  /\ bookings'[i].user_id = bookings[i].user_id
                  /\ bookings'[i].host_id = bookings[i].host_id
                  /\ bookings'[i].start_time = bookings[i].start_time
                  /\ bookings'[i].end_time = bookings[i].end_time
                  /\ bookings'[i].total_price = bookings[i].total_price
             ELSE bookings'[i] = bookings[i]
      ]_vars

\* A booking created on a device whose clock was ahead was cancelled and then
\* confirmed at a later day: it keeps the cancelled_at of the cancellation
\* and its created_at, while the other booking is as the booking flow wrote
\* it.
C14_Witness ==
    \E i \in DOMAIN bookings, j \in DOMAIN bookings :
        /\ i # j
        /\ bookings[i].status = "confirmed"
        /\ bookings[i].cancelled_at = ServerTimestamp(0)
        /\ bookings[i].updated_at.kind = "timestamp"
        /\ bookings[i].updated_at.t > 0
        /\ bookings[i].created_at = IsoString(1)
        /\ bookings[j].status = "pending"
        /\ bookings[j].updated_at = NoTimestamp
        /\ ubs.pc = "done"
        /\ ubs.result = "returned"

\* The notification the statement of C15 expects (none or one): its type
\* and recipient, from the new status and the acting user.
ExpectedNote(status, actingUserId, b) ==
    IF status = "cancelled" /\ actingUserId = b.host_id
    THEN <<[type |-> "booking_declined", user_id |-> b.user_id]>>
    ELSE IF status = "cancelled" /\ actingUserId = b.user_id
    THEN <<[type |-> "booking_cancelled", user_id |-> b.host_id]>>
    ELSE IF status = "confirmed" /\ actingUserId = b.host_id
    THEN <<[type |-> "booking_accepted", user_id |-> b.user_id]>>
    ELSE <<>>

\* C15: the notification a successful updateBookingStatus emits is
\* determined by the new status and the acting user: cancelled by the host
\* gives one booking_declined to user_id, cancelled by the driver one
\* booking_cancelled to host_id, confirmed by the host one booking_accepted
\* to user_id, and every other case gives no notification.
C15_NotificationByStatusAndActor ==
    [][UbsReturnStep
       => LET expected == ExpectedNote(ubs.status, ubs.userId,
                                       bookings[ubs.bookingId])
              new == NewId(notifications)
          IN  IF expected = <<>> THEN notifications' = notifications
              ELSE /\ DOMAIN notifications' = DOMAIN notifications \cup {new}
                   /\ notifications'[new].type = expected[1].type
                   /\ notifications'[new].user_id = expected[1].user_id
      ]_vars

\* C16: updateBookingStatus(bookingId, 'confirmed', actingUserId) called by
\* a user who is not the booking's host (the caller passing its own uid)
\* writes nothing: the status is not set to confirmed and no
\* booking_accepted notification is emitted.
C16_OnlyHostConfirms ==
    [][(/\ ubs.pc \in {"updateDoc", "getListing", "notify"}
        /\ ubs.status = "confirmed"
        /\ ubs.uid = ubs.userId
        /\ ubs.bookingId \in DOMAIN bookings
        /\ ubs.userId # bookings[ubs.bookingId].host_id)
       => (bookings' = bookings /\ notifications' = notifications)
      ]_vars

\* The edges of the lifecycle.
LifecycleEdges ==
    {<<"pending", "confirmed">>, <<"pending", "cancelled">>,
     <<"confirmed", "cancelled">>}

\* C17: every status change the screen controllers make follows a lifecycle
\* edge (pending to confirmed, pending to cancelled, confirmed to
\* cancelled); in particular a cancelled booking never becomes confirmed,
\* also when host and driver act on copies loaded while it was pending.
C17_StatusFollowsLifecycle ==
    [][\A i \in DOMAIN bookings \cap DOMAIN bookings' :
          bookings'[i].status # bookings[i].status
          => <<bookings[i].status, bookings'[i].status>> \in LifecycleEdges
      ]_vars

\* C18: starting from the bookings createBooking writes, no sequence of
\* screen-controller actions (booking flow, accept, decline, cancel) and
\* runs of the purge job reaches a state in which a booking is completed.
C18_NeverCompleted ==
    \A i \in DOMAIN bookings : bookings[i].status # "completed"

\* A booking was created, accepted, declined from the list loaded before,
\* and purged after the retention window.
C18_Witness ==
    /\ purge.deleted # {}
    /\ bookings = EmptyStore
    /\ \E n \in DOMAIN notifications :
          notifications[n].type = "booking_accepted"
    /\ \E n \in DOMAIN notifications :
          notifications[n].type = "booking_declined"

\* C19 (as amended): filterOldCancelledBookings is idempotent at one
\* instant: applied to its own result at the instant of the first call it
\* returns the same list; applied at a later instant it returns no more
\* than the first call.
C19_IdempotentAtOneInstant ==
    lastFilter.calls = 2 =>
        /\ lastFilter.again = lastFilter.at => lastFilter.twice = lastFilter.once
        /\ Len(lastFilter.twice) <= Len(lastFilter.once)

\* C19 as stated: applying the function to its own result always yields the
\* list the first call returned.
C19_Original ==
    lastFilter.calls = 2 => lastFilter.twice = lastFilter.once

\* Both calls were made at one instant, the first one having dropped a
\* booking and kept a cancelled one.
C19_Witness ==
    /\ lastFilter.calls = 2
    /\ lastFilter.again = lastFilter.at
    /\ Len(lastFilter.once) < Len(lastFilter.input)
    /\ \E k \in 1..Len(lastFilter.once) :
          /\ lastFilter.once[k].data.status = "cancelled"
          /\ lastFilter.once[k].data.cancelled_at.kind = "string"

\* What the statement of C20 retains at the instant now, on days.
Retained(b, now) ==
    \/ b.status # "cancelled"
    \/ b.cancelled_at.kind = "absent"
    \/ b.cancelled_at.iso /\ b.cancelled_at.t > now - RetentionDays

C21_CancelledEventuallyPurged ==
    \A i \in 1..MaxBookings :
        []((/\ i \in DOMAIN bookings
            /\ bookings[i].status = "cancelled"
            /\ clock + RetentionDays < MaxClock)
           => <>(i \notin DOMAIN bookings \/ bookings[i].status # "cancelled"))

\* C22: every notification is created with read = false whatever the caller
\* passed, and read only ever changes from false to true:
\* markNotificationAsRead sets read to true, changes no other field and no
\* other notification, and applied to a read notification it changes
\* nothing.  No notification is removed.
C22_ReadOnlyFalseToTrue ==
    [][/\ DOMAIN notifications \subseteq DOMAIN notifications'
       /\ \A n \in DOMAIN notifications' \ DOMAIN notifications :
             notifications'[n].read = FALSE
       /\ \A n \in DOMAIN notifications :
             \/ notifications'[n] = notifications[n]
             \/ /\ lastNote'.op = "mark"
                /\ lastNote'.id = n
                /\ lastNote'.result = "ok"
                /\ ~notifications[n].read
                /\ notifications'[n] = [notifications[n] EXCEPT !.read = TRUE]
       /\ (lastNote' # lastNote /\ lastNote'.op = "mark"
                                /\ lastNote'.result = "ok")
          => /\ notifications'[lastNote'.id].read = TRUE
             /\ notifications[lastNote'.id].read => notifications' = notifications
      ]_vars

\* A notification whose caller passed read: true was stored unread, while an
\* earlier one has been marked as read.
C22_Witness ==
    /\ lastNote.op = "create"
    /\ lastNote.read = "true"
    /\ lastNote.result = "ok"
    /\ lastNote.id \in DOMAIN notifications
    /\ ~notifications[lastNote.id].read
    /\ \E n \in DOMAIN notifications : notifications[n].read

\* The owner of a listing document: the user in its user_id or host_id.
OwnsListing(uid, l) ==
    /\ uid # NoUser
    /\ l \in DOMAIN listings
    /\ (listings[l].user_id = uid \/ listings[l].host_id = uid)

\* The calls that end in the step: an updateListing call, or a
\* deleteListing call at either of its exits.
EndingListingCalls ==
    (IF lastListing'.upd # lastListing.upd THEN {lastListing'.upd} ELSE {})
    \cup (IF lastListing'.del # lastListing.del /\ lastListing'.del.pc = "done"
          THEN {lastListing'.del} ELSE {})

\* C23: a listing is modified or deleted only by its owner: an updateListing
\* or deleteListing call that ends while the signed-in user is not the
\* listing's owner, while nobody is signed in or for a listing that does
\* not exist, throws and leaves the listings collection unchanged; and
\* every change of the collection is the change of one listing by a call
\* of its owner.
C23_OnlyOwnerModifies ==
    [][/\ \A c \in EndingListingCalls :
             ~OwnsListing(c.uid, c.listingId)
             => (c.result = "threw" /\ listings' = listings)
       /\ listings' # listings
          => \E c \in EndingListingCalls :
                /\ OwnsListing(c.uid, c.listingId)
                /\ c.result = "returned"
                /\ \A l \in DOMAIN listings \ {c.listingId} :
                      l \in DOMAIN listings' /\ listings'[l] = listings[l]
                /\ DOMAIN listings' \subseteq DOMAIN listings
      ]_vars

\* The owner of L2 has handed it to bob, and her deleteListing call, which
\* had passed its ownership test before, was refused: L2 is still stored.
C23_Witness ==
    /\ lastListing.upd.result = "returned"
    /\ lastListing.del.pc = "done"
    /\ lastListing.del.uid = "alice"
    /\ lastListing.del.listingId = "L2"
    /\ lastListing.del.error = "permission-denied"
    /\ "L2" \in DOMAIN listings
    /\ listings["L2"].user_id = "bob"

\* C24: notification creation is best-effort for createBooking: when the
\* notification write fails after the booking was written, createBooking
\* still returns the identifier of the booking.
C24_NotificationBestEffort ==
    [][\A p \in Procs :
          (Called(p) /\ flow[p].pc = "notifyHost" /\ flow'[p].pc = "done")
          => /\ flow'[p].result = "returned"
             /\ flow'[p].bookingId = flow[p].bookingId
      ]_vars

\* C25: every booking written by createBooking has status pending and the
\* signed-in user of the calling device as user_id, whatever status and
\* user_id the argument names; a call made while nobody is signed in throws
\* and no step of it writes.
C25_PendingAndOwnRequester ==
    [][\A p \in Procs :
          /\ (flow[p].pc = "addBooking" /\ bookings' # bookings
                                        /\ flow'[p].pc = "notifyHost")
             => LET id == flow'[p].bookingId
                IN  /\ DOMAIN bookings' = DOMAIN bookings \cup {id}
                    /\ id \notin DOMAIN bookings
                    /\ bookings'[id].status = "pending"
                    /\ bookings'[id].user_id = flow[p].uid
                    /\ flow[p].uid = DeviceUser(p)
          /\ (flow'[p] # flow[p] /\ Called(p)' /\ flow'[p].uid = NoUser)
             => (Threw(p)' /\ NoWrite)
      ]_vars

\* Bob's device has stored a second booking, by a call whose argument
\* named carol as the user and confirmed as the status: both bookings are
\* bob's and pending.
C25_Witness ==
    /\ flow["p1"].pc = "done"
    /\ flow["p1"].result = "returned"
    /\ flow["p1"].bookingData.user_id = "carol"
    /\ flow["p1"].bookingData.status = "confirmed"
    /\ flow["p1"].bookingId = 2
    /\ DOMAIN bookings = {1, 2}
    /\ \A i \in DOMAIN bookings :
          bookings[i].user_id = "bob" /\ bookings[i].status = "pending"

\* C27: whenever createBooking throws, the bookings collection is as it was
\* when the call started: the call has stored no booking.
C27_FailureLeavesNoBooking ==
    \A p \in Procs :
        (Called(p) /\ Threw(p)) => flow[p].bookingId \notin DOMAIN bookings

\* C26: a booking cancelled through updateBookingStatus less than 15 days
\* before the driver's bookings screen reads it back is in the list
\* filterOldCancelledBookings returns (the clocks of device and server
\* agreeing).
C26_RecentCancellationRetained ==
    (lastFilter.calls = 1 /\ skew = 0)
    => \A k \in 1..Len(lastFilter.input) :
          LET b == lastFilter.input[k]
          IN  (/\ b.data.status = "cancelled"
               /\ b.data.cancelled_at.kind = "timestamp"
               /\ b.data.cancelled_at.t > lastFilter.at - RetentionDays)
              => \E j \in 1..Len(lastFilter.once) : lastFilter.once[j] = b

\* C28: when booking flows and status changes run one at a time and no
\* backend call fails, no two pending or confirmed bookings of one listing
\* have overlapping intervals once they have all run to their end.
C28_SerialNeverDoubleBooked ==
    Quiet => \A i, j \in DOMAIN bookings : ~DoubleBooked(bookings, i, j)

\* C29: every stored booking whose status is cancelled has a cancelled_at
\* timestamp, whichever handler cancelled it.
C29_CancelledHasCancelledAt ==
    \A i \in DOMAIN bookings :
        bookings[i].status = "cancelled"
        => bookings[i].cancelled_at.kind # "absent"

\* The minutes from today's midnight at which a slot of the rendered date
\* starts and ends.
SlotStart(slot) == calendar.date * MinutesPerDay + ParseMinutes(slot.startTime)
SlotEnd(slot) == calendar.date * MinutesPerDay + ParseMinutes(slot.endTime)

\* The pending or confirmed bookings of the Calendar's listing on the
\* rendered date.
BookedOnDate ==
    {i \in DOMAIN bookings :
        /\ bookings[i].listing_id = calendar.listingId
        /\ Accepted(bookings[i])
        /\ bookings[i].start_time.t \div MinutesPerDay = calendar.date}

\* Every offered slot is disjoint from every such booking.
OfferedSlotsFree ==
    \A k \in 1..Len(calendar.offered), i \in BookedOnDate :
        \/ SlotEnd(calendar.offered[k]) <= bookings[i].start_time.t
        \/ bookings[i].end_time.t <= SlotStart(calendar.offered[k])

\* The generated slots are consecutive, at most 60 minutes long, and run
\* from the start of the availability window to its end (none when the
\* window is empty).
GeneratedSlotsTile ==
    LET slots == calendar.timeSlots
        S == ParseMinutes(EffectiveStart(calendar.availability))
        E == ParseMinutes(EffectiveEnd(calendar.availability))
    IN  /\ \A k \in 1..Len(slots) :
              /\ ParseMinutes(slots[k].startTime) < ParseMinutes(slots[k].endTime)
              /\ ParseMinutes(slots[k].endTime)
                 - ParseMinutes(slots[k].startTime) <= 60
        /\ \A k \in 1..(Len(slots) - 1) :
              slots[k].endTime = slots[k + 1].startTime
        /\ IF S < E
           THEN /\ Len(slots) > 0
                /\ ParseMinutes(slots[1].startTime) = S
                /\ ParseMinutes(slots[Len(slots)].endTime) = E
           ELSE slots = <<>>

\* C30: when the Calendar has loaded the booked slots of its listing (every
\* query answered) and rendered a date, every slot it offers is disjoint
\* from every pending or confirmed booking of the listing on that date, and
\* the generated slots are consecutive, non-overlapping, at most 60 minutes
\* long and cover the availability window exactly.
C30_OfferedSlotsFreeAndTiling ==
    (/\ calendar.rendered
     /\ calendar.listingId # Undefined
     /\ \A d \in Dates : calendar.outcomes[d] = "ok")
    => OfferedSlotsFree /\ GeneratedSlotsTile

====
